---- MODULE Spec2Model ----
(***************************************************************************)
(* ISO 24765 terminology translator: the translation pipeline              *)
(* (TranslationProcessor, ChromeTranslator, BrowserManager) and the        *)
(* command / signal handling of ISO24765Translator.                        *)
(*                                                                         *)
(* A text is a sequence of tokens.  A token is one character, except:      *)
(*   "CTX"    the 33-character phrase of the context template that         *)
(*            precedes the colon,                                          *)
(*   "FW:"    the full-width colon (one character),                        *)
(*   "{text}" the 6-character placeholder of the template,                 *)
(*   "x4964"  a run of 4964 ordinary characters (to reach the length       *)
(*            limit without 5000 single tokens).                           *)
(* An optional field is <<>> when absent and <<v>> when present.           *)
(***************************************************************************)
EXTENDS Integers, Sequences, FiniteSets, TLC

(* ------------------------------ bounds --------------------------------- *)
\* longest dataset of the main specification
MaxWords == 2
\* largest configured batch size
MaxBatch == 2
\* largest configured retry count
MaxRetry == 2
\* number of signals (SIGINT / SIGTERM) delivered to one process
MaxSignals == 1
\* a long dataset has backupInterval .. backupInterval + LongExtra terms
LongExtra == 2
\* longest text (in tokens) handed to a single translate call
MaxTextLen == 4

(* ------------------------------ texts ---------------------------------- *)
Min(a, b) == IF a < b THEN a ELSE b

Opt(S) == {<<>>} \cup {<<v>> : v \in S}

Present(o) == Len(o) = 1

CTX == "CTX"

\* the full-width colon that ends the template prefix
FWCOLON == "FW:"

PLACEHOLDER == "{text}"

\* String.length of one token
TokenLength(tok) ==
  IF tok = CTX THEN 33
  ELSE IF tok = PLACEHOLDER THEN 6
  ELSE IF tok = "x4964" THEN 4964
  ELSE 1

RECURSIVE TextLength(_)
TextLength(s) == IF s = <<>> THEN 0 ELSE TokenLength(Head(s)) + TextLength(Tail(s))

IsSpace(tok) == tok = " "

RECURSIVE TrimStart(_)
TrimStart(s) == IF s # <<>> /\ IsSpace(Head(s)) THEN TrimStart(Tail(s)) ELSE s

RECURSIVE TrimEnd(_)
TrimEnd(s) ==
  IF s # <<>> /\ IsSpace(s[Len(s)]) THEN TrimEnd(SubSeq(s, 1, Len(s) - 1)) ELSE s

\* String.prototype.trim
Trim(s) == TrimEnd(TrimStart(s))

\* String.prototype.startsWith
StartsWith(s, p) == Len(s) >= Len(p) /\ SubSeq(s, 1, Len(p)) = p

\* s.substring(n)
Substring(s, n) == SubSeq(s, n + 1, Len(s))

\* the part of config.contextTemplate before "{text}"
TemplatePrefix == <<CTX, FWCOLON>>

contextTemplate == TemplatePrefix \o <<PLACEHOLDER>>

\* The replacement string of String.prototype.replace(pattern, replacement):
\* "$$" inserts "$", "$&" the matched placeholder, "$`" what precedes the
\* match and "$'" what follows it (nothing, the placeholder ends the template).
RECURSIVE ExpandReplacement(_)
ExpandReplacement(r) ==
  IF r = <<>> THEN <<>>
  ELSE IF Head(r) = "$" /\ Len(r) >= 2 /\ r[2] = "$"
    THEN <<"$">> \o ExpandReplacement(Substring(r, 2))
  ELSE IF Head(r) = "$" /\ Len(r) >= 2 /\ r[2] = "&"
    THEN <<PLACEHOLDER>> \o ExpandReplacement(Substring(r, 2))
  ELSE IF Head(r) = "$" /\ Len(r) >= 2 /\ r[2] = "`"
    THEN TemplatePrefix \o ExpandReplacement(Substring(r, 2))
  ELSE IF Head(r) = "$" /\ Len(r) >= 2 /\ r[2] = "'"
    THEN ExpandReplacement(Substring(r, 2))
  ELSE <<Head(r)>> \o ExpandReplacement(Tail(r))

\* this.config.contextTemplate.replace("{text}", request.text)
WrapContext(text) == TemplatePrefix \o ExpandReplacement(text)

contextPrefixes ==
  << <<CTX, FWCOLON>>, <<CTX, ":">>, <<CTX, " ", ":">>, <<CTX, " ", FWCOLON>> >>

RECURSIVE RemoveFrom(_, _)
RemoveFrom(t, n) ==
  IF n > Len(contextPrefixes) THEN t
  ELSE IF StartsWith(t, contextPrefixes[n])
    THEN Trim(Substring(t, Len(contextPrefixes[n])))
    ELSE RemoveFrom(t, n + 1)

removeContextFromTranslation(translatedText) == RemoveFrom(translatedText, 1)

createContextRequest(text) == [text |-> text, withContext |-> TRUE]

createSimpleRequest(text) == [text |-> text, withContext |-> FALSE]

maxTextLength == 5000

\* what translate() hands to page.evaluate
TextToTranslate(request) ==
  IF request.withContext THEN WrapContext(request.text) ELSE request.text

\* the length test with the limit itself refused
ReachesGatewayBelowLimit(request) ==
  /\ request.text # <<>>
  /\ Trim(request.text) # <<>>
  /\ TextLength(TextToTranslate(request)) < maxTextLength

\* translate() reaches page.evaluate: the input is neither blank nor too long
ReachesGateway(request) ==
  /\ request.text # <<>>
  /\ Trim(request.text) # <<>>
  /\ TextLength(TextToTranslate(request)) <= maxTextLength

Failure(request, error) ==
  [translatedText |-> <<>>, originalText |-> request.text, success |-> FALSE,
   error |-> error]

\* translate() without its final validation of the text it returns
translateUnvalidated(request, gw) ==
  IF request.text = <<>> \/ Trim(request.text) = <<>>
    THEN Failure(request, "Empty text provided for translation")
  ELSE IF TextLength(TextToTranslate(request)) > maxTextLength
    THEN Failure(request, "Text too long for translation (>5000 characters)")
  ELSE IF gw.throws \/ gw.result = <<>>
    THEN Failure(request, "Browser translation error")
  ELSE [translatedText |-> IF request.withContext
                             THEN removeContextFromTranslation(gw.result)
                             ELSE gw.result,
        originalText |-> request.text, success |-> TRUE, error |-> ""]

\* ChromeTranslator.translate.  gw is what page.evaluate does on this call:
\* [throws |-> TRUE] or [throws |-> FALSE, result |-> text].
translate(request, gw) ==
  IF request.text = <<>> \/ Trim(request.text) = <<>>
    THEN Failure(request, "Empty text provided for translation")
  ELSE IF TextLength(TextToTranslate(request)) > maxTextLength
    THEN Failure(request, "Text too long for translation (>5000 characters)")
  ELSE IF gw.throws \/ gw.result = <<>>
    \* an empty result is thrown as "Invalid translation result" in the page
    THEN Failure(request, "Browser translation error")
  ELSE LET finalText == IF request.withContext
                          THEN removeContextFromTranslation(gw.result)
                          ELSE gw.result
       IN IF finalText = <<>> \/ Trim(finalText) = <<>>
            THEN Failure(request, "Translation result is empty after context removal")
            ELSE [translatedText |-> finalText, originalText |-> request.text,
                  success |-> TRUE, error |-> ""]

(* ------------------------------ terms ---------------------------------- *)
\* processTranslation: const backupInterval = 100
backupInterval == 100

\* the mock translation of one token: the gateway is opaque, its Japanese
\* output for "a" is written "A"
JaToken(tok) ==
  IF tok = "a" THEN "A" ELSE IF tok = "b" THEN "B" ELSE IF tok = "c" THEN "C"
  ELSE IF tok = "d" THEN "D" ELSE IF tok = "e" THEN "E" ELSE IF tok = "n" THEN "N"
  ELSE IF tok = "x" THEN "X" ELSE tok

JaText(s) == [p \in 1..Len(s) |-> JaToken(s[p])]

Def(text, reference) == [text |-> text, reference |-> reference]

\* Word (types.ts): the shapes of term the datasets are built from
MinimalWord(n) ==
  [number |-> n, name |-> <<"a">>, alias |-> <<>>,
   definitions |-> <<Def(<<"d">>, <<>>)>>,
   confer |-> <<>>, example |-> <<>>, note |-> <<>>]

\* two aliases, a definition with a reference, a note
AliasWord(n) ==
  [number |-> n, name |-> <<"a">>, alias |-> << <<(<<"b">>), (<<"c">>)>> >>,
   definitions |-> <<Def(<<"d">>, <<(<<"r">>)>>)>>,
   confer |-> <<>>, example |-> <<>>, note |-> <<(<<"n">>)>>]

\* two definitions, a related term, an example, and a note that is the empty
\* string
RichWord(n) ==
  [number |-> n, name |-> <<"a">>, alias |-> <<>>,
   definitions |-> <<Def(<<"d">>, <<>>), Def(<<"e">>, <<>>)>>,
   confer |-> << <<(<<"c">>)>> >>, example |-> <<(<<"x">>)>>, note |-> <<(<<>>)>>]

Shapes == {"minimal", "alias", "rich"}

MkWord(shape, n) ==
  IF shape = "minimal" THEN MinimalWord(n)
  ELSE IF shape = "alias" THEN AliasWord(n)
  ELSE RichWord(n)

\* the datasets: up to MaxWords terms numbered 1, 2, ... (unique ids), the
\* first or the last of them of any shape and the others minimal
Datasets ==
  {<<>>} \cup
  UNION {{[p \in 1..len |-> IF p = q THEN MkWord(sh, p) ELSE MinimalWord(p)] :
            q \in {1, len}, sh \in Shapes} : len \in 1..MaxWords}

MinimalDatasets == {[p \in 1..len |-> MinimalWord(p)] : len \in 0..MaxWords}

\* up to MaxWords minimal terms, or one term of any shape
SmallDatasets == MinimalDatasets \cup {<<MkWord(sh, 1)>> : sh \in Shapes}

\* the batch sizes of a run over a long dataset: the one main.ts configures,
\* the default of TranslationProcessor, and one that does not divide 100
LongBatchSizes == {5, 10, 3}

\* datasets long enough for the periodic backup
LongDatasets ==
  {[p \in 1..len |-> MinimalWord(p)] : len \in backupInterval..(backupInterval + LongExtra)}

\* JavaScript truthiness of an optional array (any array is truthy) and of an
\* optional string (the empty string is falsy)
TruthyArray(o) == Present(o)

TruthyString(o) == Present(o) /\ o[1] # <<>>

\* TranslatedWord as translateWord first builds it
Skeleton(word) ==
  [number |-> word.number, name |-> word.name, name_ja |-> <<>>,
   alias |-> <<>>, alias_ja |-> <<>>,
   definitions |-> [p \in 1..Len(word.definitions) |->
                      [text |-> word.definitions[p].text, text_ja |-> <<>>,
                       reference |-> word.definitions[p].reference]],
   confer |-> <<>>, confer_ja |-> <<>>,
   example |-> <<>>, example_ja |-> <<>>,
   note |-> <<>>, note_ja |-> <<>>]

createPartialTranslation(word) ==
  [number |-> word.number, name |-> word.name, name_ja |-> word.name,
   alias |-> IF TruthyArray(word.alias) THEN word.alias ELSE <<>>,
   alias_ja |-> IF TruthyArray(word.alias) THEN word.alias ELSE <<>>,
   definitions |-> [p \in 1..Len(word.definitions) |->
                      [text |-> word.definitions[p].text,
                       text_ja |-> word.definitions[p].text,
                       reference |-> word.definitions[p].reference]],
   confer |-> IF TruthyArray(word.confer) THEN word.confer ELSE <<>>,
   confer_ja |-> IF TruthyArray(word.confer) THEN word.confer ELSE <<>>,
   example |-> IF TruthyString(word.example) THEN word.example ELSE <<>>,
   example_ja |-> IF TruthyString(word.example) THEN word.example ELSE <<>>,
   note |-> IF TruthyString(word.note) THEN word.note ELSE <<>>,
   note_ja |-> IF TruthyString(word.note) THEN word.note ELSE <<>>]

\* a checkpoint entry as an earlier run wrote it when every call succeeded
Translated(word) ==
  [number |-> word.number, name |-> word.name, name_ja |-> JaText(word.name),
   alias |-> word.alias,
   alias_ja |-> IF Present(word.alias)
                  THEN <<[p \in 1..Len(word.alias[1]) |-> JaText(word.alias[1][p])]>>
                  ELSE <<>>,
   definitions |-> [p \in 1..Len(word.definitions) |->
                      [text |-> word.definitions[p].text,
                       text_ja |-> JaText(word.definitions[p].text),
                       reference |-> word.definitions[p].reference]],
   confer |-> word.confer,
   confer_ja |-> IF Present(word.confer)
                   THEN <<[p \in 1..Len(word.confer[1]) |-> JaText(word.confer[1][p])]>>
                   ELSE <<>>,
   example |-> IF TruthyString(word.example) THEN word.example ELSE <<>>,
   example_ja |-> IF TruthyString(word.example) THEN <<JaText(word.example[1])>> ELSE <<>>,
   note |-> IF TruthyString(word.note) THEN word.note ELSE <<>>,
   note_ja |-> IF TruthyString(word.note) THEN <<JaText(word.note[1])>> ELSE <<>>]

\* the checkpoint files a resume is started with: the translation of a prefix
\* of the dataset, or of all but the last term followed by an entry whose id
\* the dataset lacks
Checkpoints(ws) ==
  LET prefix(m) == [p \in 1..m |-> Translated(ws[p])]
      stale == Translated(MinimalWord(Len(ws) + 1))
  IN {prefix(m) : m \in 0..Len(ws)}
     \cup {Append(prefix(Len(ws) - 1), stale) : m \in 1..Min(1, Len(ws))}

\* the backup files a run over ws writes: the translation of the first n
\* terms, whenever the number n of finished terms is a multiple of backupInterval
WrittenCheckpoints(ws) ==
  {[p \in 1..n |-> Translated(ws[p])] :
     n \in {m \in 1..Len(ws) : m % backupInterval = 0}}

(* ------------------------------ state ---------------------------------- *)
VARIABLES
  command,            \* "translate" or "resume" (process.argv), or "batch":
                      \* the in-page translateWordsBatch of translate.ts
  words,              \* the dataset file
  checkpoint,         \* the backup file a resume is started with
  batchSize,          \* config.batchSize
  retryCount,         \* config.retryCount
  gatewayReliable,    \* environment: the Translator API never fails on an open page
  closeReliable,      \* environment: no close() call is rejected
  pc,                 \* where the command's async function is suspended
  exited,             \* "no", or the exit code of the process
  browser, context, page,   \* BrowserManager fields: TRUE when not null
  translator,         \* TranslationProcessor.translator is not null
  translatorInstance, \* ChromeTranslator.translatorInstance is not null
  closeCalls,         \* how often close() was called on page, context, browser
  mainTodo,           \* the cleanup calls the command still makes before it ends
  mainCl,             \* the close() the command's cleanup call is awaiting
  sig,                \* per signal: the close() its gracefulShutdown is awaiting
  todo,               \* the terms the batch loop runs over
  i,                  \* the batch loop's index (0-based start of the batch)
  j,                  \* processBatch: position in the batch (1-based)
  fld, k,             \* translateWord: the sub-field being translated, its index
  attempts,           \* translateBatch: attempts made for the current request
  trs,                \* translateBatch: results
  cur,                \* translateWord: translatedWord
  batchResults,       \* processBatch: results
  tasks,              \* translateWordsBatch: the translateWord calls of the batch
  stray,              \* translateWordsBatch: calls in flight of earlier batches
  settleOrder,        \* history: ids in the order their translateWord returned
  translatedWords,    \* the accumulated result list
  status,             \* TranslationStatus
  outputFile,         \* the file at outputPath: <<>> or <<content>>
  backupFiles,        \* the .backup-<n>.json files written: n -> content
  gatewayCalls,       \* history: number of page.evaluate translate calls
  sessions,           \* history: number of translators Translator.create returned
  callLog,            \* history: the resolved sub-field calls of the current term
  lastDelay,          \* history: the delay last inserted between two batches
  fallbackIds,        \* history: ids of the terms that received a fallback value
  callRequest,        \* a single translate call: its TranslationRequest
  callEvaluated,      \* that call: <<>> or <<what page.evaluate was given and did>>
  callResponse,       \* that call: <<>> or <<the TranslationResponse returned>>
  batchRequests,      \* translateBatch: the requests it is called with
  batchTries,         \* history: success of each translate call of the current request
  batchWaits,         \* history: the backoff delays of the current request
  batchLog,           \* history: the tries and waits of each request that has its result
  translatedFile,     \* validate: the parsed content of the translated file
  originalRead,       \* validateFromFiles: <<>> or <<the original data read>>
  translatedRead,     \* validateFromFiles: <<>> or <<the translated data read>>
  validated,          \* validateFromFiles: <<>> or <<what validateTranslation did>>
  valResult           \* validateFromFiles: <<>> or <<the ValidationResult returned>>

cfgVars == <<command, words, checkpoint, batchSize, retryCount, gatewayReliable,
            closeReliable>>

browserVars == <<browser, context, page, translator, translatorInstance, closeCalls>>

threadVars == <<mainTodo, mainCl, sig>>

wordVars == <<fld, k, attempts, trs, cur, callLog>>

loopVars == <<todo, i, j, batchResults, translatedWords, status>>

fileVars == <<outputFile, backupFiles>>

obsVars == <<gatewayCalls, sessions, lastDelay, fallbackIds>>

callVars == <<callRequest, callEvaluated, callResponse>>

valVars == <<translatedFile, originalRead, translatedRead, validated, valResult>>

batchVars == <<batchRequests, batchTries, batchWaits, batchLog>>

poolVars == <<tasks, stray, settleOrder>>

vars == <<cfgVars, pc, exited, browserVars, threadVars, wordVars, loopVars, poolVars,
          fileVars, obsVars, callVars, valVars, batchVars>>

NoStatus == [total |-> 0, completed |-> 0, failed |-> 0, errors |-> <<>>]

(* --------------------------- the gateway ------------------------------- *)
\* page.evaluate works until close() is called on the page, its context or
\* its browser
PageUsable ==
  page /\ closeCalls.page = 0 /\ closeCalls.context = 0 /\ closeCalls.browser = 0

Throws == [throws |-> TRUE, result |-> <<>>]

\* the Translator API output for the text handed over: the Japanese text, the
\* context prefix rendered in one of the known ways
GatewayResult(text, v) ==
  IF StartsWith(text, TemplatePrefix)
    THEN contextPrefixes[v] \o JaText(Substring(text, Len(TemplatePrefix)))
    ELSE JaText(text)

GatewayOutcomes(text) ==
  IF ~PageUsable THEN {Throws}
  ELSE {[throws |-> FALSE, result |-> GatewayResult(text, v)] : v \in 1..Len(contextPrefixes)}
       \cup (IF gatewayReliable THEN {} ELSE {Throws})

(* --------------------------- translateWord ----------------------------- *)
FieldOrder == <<"name", "alias", "def", "confer", "example", "note">>

\* the condition under which translateWord translates a sub-field
Needs(word, f) ==
  IF f = "alias" THEN TruthyArray(word.alias) /\ word.alias[1] # <<>>
  ELSE IF f = "def" THEN word.definitions # <<>>
  ELSE IF f = "confer" THEN TruthyArray(word.confer) /\ word.confer[1] # <<>>
  ELSE IF f = "example" THEN TruthyString(word.example)
  ELSE IF f = "note" THEN TruthyString(word.note)
  ELSE TRUE

RECURSIVE FirstNeeded(_, _)
FirstNeeded(word, n) ==
  IF n > Len(FieldOrder) THEN "end"
  ELSE IF Needs(word, FieldOrder[n]) THEN FieldOrder[n]
  ELSE FirstNeeded(word, n + 1)

FieldIndex(f) == CHOOSE n \in 1..Len(FieldOrder) : FieldOrder[n] = f

\* the sub-field translateWord turns to after f
NextFld(word, f) == FirstNeeded(word, FieldIndex(f) + 1)

LogEntry(f, n, tries, r) ==
  [fld |-> f, k |-> n, attempts |-> tries, success |-> r.success,
   original |-> r.originalText, result |-> r.translatedText]

\* C3 mutant: the batch loop is left after its first batch
AfterSaveEndsLoop == "final"

\* after a batch: the periodic save, the delay, the next batch or the end
AfterSave ==
  LET more == i + batchSize < Len(todo)
  IN IF command = "translate"
       THEN (IF more THEN "delay" ELSE "final")
       ELSE (IF more THEN "word" ELSE "final")

AfterBatch(completed) ==
  IF completed % backupInterval = 0 THEN "save" ELSE AfterSave

\* C4 mutant: the results of a batch are put in front of the accumulated ones
BatchDonePrepends(results, st) ==
  LET tws == results \o translatedWords
      next == AfterBatch(Len(tws))
  IN /\ translatedWords' = tws
     /\ status' = [st EXCEPT !.completed = Len(tws)]
     /\ pc' = next
     /\ j' = 1
     /\ i' = IF next \in {"word", "final"} THEN i + batchSize ELSE i
     /\ batchResults' = IF next = "word" THEN <<>> ELSE results

\* processTranslation / resumeTranslation once processBatch has returned
BatchDone(results, st) ==
  LET tws == translatedWords \o results
      next == AfterBatch(Len(tws))
  IN /\ translatedWords' = tws
     /\ status' = [st EXCEPT !.completed = Len(tws)]
     /\ pc' = next
     /\ j' = 1
     /\ i' = IF next \in {"word", "final"} THEN i + batchSize ELSE i
     /\ batchResults' = IF next = "word" THEN <<>> ELSE results

\* processBatch: results.push for the current term
WordDone(tw, st) ==
  LET results == Append(batchResults, tw)
      batchLen == Min(batchSize, Len(todo) - i)
  IN /\ cur' = tw
     /\ fld' = "name" /\ k' = 1 /\ attempts' = 0 /\ trs' = <<>>
     /\ IF Len(results) < batchLen
          THEN /\ batchResults' = results
               /\ j' = j + 1
               /\ status' = st
               /\ UNCHANGED <<i, translatedWords, pc>>
          ELSE BatchDone(results, st)

\* translateWord goes on with sub-field nf, or returns
Continue(word, tw, nf) ==
  IF nf = "end"
    THEN WordDone(tw, status)
    ELSE /\ cur' = tw
         /\ fld' = nf /\ k' = 1 /\ attempts' = 0 /\ trs' = <<>>
         /\ UNCHANGED <<i, j, batchResults, translatedWords, status, pc>>

CurrentWord == todo[i + j]

Translating(f) == pc = "word" /\ fld = f /\ exited = "no"

Counted(request) == gatewayCalls + (IF ReachesGateway(request) THEN 1 ELSE 0)

\* the function translate() evaluates in the page calls Translator.create
\* before translator.translate: a call that returns a text created a translator
Created(request, gw) ==
  sessions + (IF ReachesGateway(request) /\ ~gw.throws THEN 1 ELSE 0)

Fallback(word, r) == IF r.success THEN fallbackIds ELSE fallbackIds \cup {word.number}

TranslateName ==
  /\ Translating("name")
  /\ LET word == CurrentWord
         request == createContextRequest(word.name)
     IN IF ~translator
          THEN \* translateWord throws, processBatch catches
               /\ WordDone(createPartialTranslation(word),
                           [status EXCEPT !.failed = @ + 1,
                                          !.errors = Append(@, word.name)])
               /\ callLog' = <<>>
               /\ fallbackIds' = fallbackIds \cup {word.number}
               /\ UNCHANGED <<gatewayCalls, sessions>>
          ELSE \E gw \in GatewayOutcomes(TextToTranslate(request)) :
                 LET r == translate(request, gw)
                     tw == [Skeleton(word) EXCEPT
                              !.name_ja = IF r.success THEN r.translatedText ELSE word.name]
                 IN /\ callLog' = <<LogEntry("name", 1, 1, r)>>
                    /\ gatewayCalls' = Counted(request)
                    /\ sessions' = Created(request, gw)
                    /\ fallbackIds' = Fallback(word, r)
                    /\ Continue(word, tw, NextFld(word, "name"))
  /\ UNCHANGED <<cfgVars, batchVars, valVars, callVars, poolVars, exited, browserVars, threadVars, todo, fileVars, lastDelay>>

TranslateDefinition ==
  /\ Translating("def")
  /\ LET word == CurrentWord
         request == createContextRequest(word.definitions[k].text)
     IN \E gw \in GatewayOutcomes(TextToTranslate(request)) :
          LET r == translate(request, gw)
              tw == [cur EXCEPT !.definitions[k].text_ja =
                       IF r.success THEN r.translatedText ELSE word.definitions[k].text]
          IN /\ callLog' = Append(callLog, LogEntry("def", k, 1, r))
             /\ gatewayCalls' = Counted(request)
             /\ sessions' = Created(request, gw)
             /\ fallbackIds' = Fallback(word, r)
             /\ IF k < Len(word.definitions)
                  THEN /\ cur' = tw /\ k' = k + 1
                       /\ UNCHANGED <<fld, attempts, trs, i, j, batchResults,
                                      translatedWords, status, pc>>
                  ELSE Continue(word, tw, NextFld(word, "def"))
  /\ UNCHANGED <<cfgVars, batchVars, valVars, callVars, poolVars, exited, browserVars, threadVars, todo, fileVars, lastDelay>>

TranslateExample ==
  /\ Translating("example")
  /\ LET word == CurrentWord
         request == createContextRequest(word.example[1])
     IN \E gw \in GatewayOutcomes(TextToTranslate(request)) :
          LET r == translate(request, gw)
              tw == [cur EXCEPT !.example = word.example,
                                !.example_ja = <<IF r.success THEN r.translatedText
                                                 ELSE word.example[1]>>]
          IN /\ callLog' = Append(callLog, LogEntry("example", 1, 1, r))
             /\ gatewayCalls' = Counted(request)
             /\ sessions' = Created(request, gw)
             /\ fallbackIds' = Fallback(word, r)
             /\ Continue(word, tw, NextFld(word, "example"))
  /\ UNCHANGED <<cfgVars, batchVars, valVars, callVars, poolVars, exited, browserVars, threadVars, todo, fileVars, lastDelay>>

TranslateNote ==
  /\ Translating("note")
  /\ LET word == CurrentWord
         request == createContextRequest(word.note[1])
     IN \E gw \in GatewayOutcomes(TextToTranslate(request)) :
          LET r == translate(request, gw)
              tw == [cur EXCEPT !.note = word.note,
                                !.note_ja = <<IF r.success THEN r.translatedText
                                              ELSE word.note[1]>>]
          IN /\ callLog' = Append(callLog, LogEntry("note", 1, 1, r))
             /\ gatewayCalls' = Counted(request)
             /\ sessions' = Created(request, gw)
             /\ fallbackIds' = Fallback(word, r)
             /\ Continue(word, tw, NextFld(word, "note"))
  /\ UNCHANGED <<cfgVars, batchVars, valVars, callVars, poolVars, exited, browserVars, threadVars, todo, fileVars, lastDelay>>

(* --------------------------- translateBatch ---------------------------- *)
\* aliasTranslations.filter((result) => result.success).map((result) => result.translatedText)
SuccessfulTexts(results) ==
  LET ok == SelectSeq(results, LAMBDA r : r.success)
  IN [p \in 1..Len(ok) |-> ok[p].translatedText]

\* translateWord with the results of translateBatch for alias or confer
WithBatchResults(tw, f, items, results) ==
  IF Len(results) > 0
    THEN IF f = "alias"
           THEN [tw EXCEPT !.alias = <<items>>, !.alias_ja = <<SuccessfulTexts(results)>>]
           ELSE [tw EXCEPT !.confer = <<items>>, !.confer_ja = <<SuccessfulTexts(results)>>]
    ELSE tw

\* One pass of translateBatch's retry loop for request k of the sub-field f
\* (or, when retryCount is 0, the request's failure without any attempt).
BatchAttempt(f, items) ==
  LET word == CurrentWord
      request == createContextRequest(items[k])
      tried == attempts < retryCount
  IN \E gw \in (IF tried THEN GatewayOutcomes(TextToTranslate(request)) ELSE {Throws}) :
       LET r == translate(request, gw)
           tries == IF tried THEN attempts + 1 ELSE attempts
           resolved == (tried /\ r.success) \/ tries >= retryCount
           final == IF tried /\ r.success THEN r
                    ELSE Failure(request, "All retry attempts failed")
           results == Append(trs, final)
       IN /\ gatewayCalls' = IF tried THEN Counted(request) ELSE gatewayCalls
          /\ sessions' = IF tried THEN Created(request, gw) ELSE sessions
          /\ UNCHANGED fallbackIds
          /\ IF ~resolved
               THEN /\ attempts' = tries
                    /\ UNCHANGED <<fld, k, trs, cur, callLog, i, j, batchResults,
                                   translatedWords, status, pc>>
               ELSE /\ callLog' = Append(callLog, LogEntry(f, k, tries, final))
                    /\ IF k < Len(items)
                         THEN /\ trs' = results /\ k' = k + 1 /\ attempts' = 0
                              /\ UNCHANGED <<fld, cur, i, j, batchResults,
                                             translatedWords, status, pc>>
                         ELSE Continue(word, WithBatchResults(cur, f, items, results),
                                       NextFld(word, f))

TranslateAlias ==
  /\ Translating("alias")
  /\ BatchAttempt("alias", CurrentWord.alias[1])
  /\ UNCHANGED <<cfgVars, batchVars, valVars, callVars, poolVars, exited, browserVars, threadVars, todo, fileVars, lastDelay>>

TranslateConfer ==
  /\ Translating("confer")
  /\ BatchAttempt("confer", CurrentWord.confer[1])
  /\ UNCHANGED <<cfgVars, batchVars, valVars, callVars, poolVars, exited, browserVars, threadVars, todo, fileVars, lastDelay>>

(* ------------------ processTranslation / resumeTranslation ------------- *)
baseDelay == 1000

calculateAdaptiveDelay(size, successCount) ==
  \* failureRate = (size - successCount) / size, compared with 0.2 and 0.1
  IF 5 * (size - successCount) > size THEN baseDelay * 3
  ELSE IF 10 * (size - successCount) > size THEN baseDelay * 2
  ELSE baseDelay

\* the batch loop is entered with the first term of todo, or skipped
EnterLoop(list) ==
  /\ todo' = list
  /\ i' = 0 /\ j' = 1
  /\ batchResults' = <<>>
  /\ pc' = IF Len(list) > 0 THEN "word" ELSE "final"

\* the statements of the command's finally block and what follows them
EndOfCommand(code) == <<"processor", code>>

LoadTranslate ==
  /\ pc = "load" /\ command = "translate" /\ exited = "no"
  /\ status' = [total |-> Len(words), completed |-> 0, failed |-> 0, errors |-> <<>>]
  /\ translatedWords' = <<>>
  /\ EnterLoop(words)
  /\ UNCHANGED <<cfgVars, batchVars, valVars, callVars, poolVars, exited, browserVars, threadVars, wordVars, fileVars, obsVars>>

\* C11 mutant: the terms of the checkpoint are not filtered out
RemainingWordsUnfiltered(completedWords, allWords) == allWords

\* allWords.filter((w) => !completedNumbers.has(w.number))
RemainingWords(completedWords, allWords) ==
  LET completedNumbers == {completedWords[p].number : p \in 1..Len(completedWords)}
  IN SelectSeq(allWords, LAMBDA w : w.number \notin completedNumbers)

LoadResume ==
  /\ pc = "load" /\ command = "resume" /\ exited = "no"
  /\ LET remainingWords == RemainingWords(checkpoint, words)
     IN IF Len(remainingWords) = 0
          THEN \* "All terms already translated": return
               /\ pc' = "cleanup"
               /\ mainTodo' = EndOfCommand("exit0")
               /\ UNCHANGED <<todo, i, j, batchResults, translatedWords, status, mainCl, sig>>
          ELSE /\ status' = [total |-> Len(words), completed |-> Len(checkpoint),
                             failed |-> 0, errors |-> <<>>]
               /\ translatedWords' = checkpoint
               /\ EnterLoop(remainingWords)
               /\ UNCHANGED threadVars
  /\ UNCHANGED <<cfgVars, batchVars, valVars, callVars, poolVars, exited, browserVars, wordVars, fileVars, obsVars>>

\* the periodic save: a .backup-<completed>.json file (translate), the output
\* file itself (resume)
SavePeriodic ==
  /\ pc = "save" /\ exited = "no"
  /\ IF command = "translate"
       THEN /\ backupFiles' = (status.completed :> translatedWords) @@ backupFiles
            /\ UNCHANGED outputFile
       ELSE /\ outputFile' = <<translatedWords>>
            /\ UNCHANGED backupFiles
  /\ pc' = AfterSave
  /\ i' = IF AfterSave \in {"word", "final"} THEN i + batchSize ELSE i
  /\ batchResults' = IF AfterSave = "word" THEN <<>> ELSE batchResults
  /\ UNCHANGED <<cfgVars, batchVars, valVars, callVars, poolVars, exited, browserVars, threadVars, wordVars, todo, j,
                 translatedWords, status, obsVars>>

\* await this.delay(this.calculateAdaptiveDelay(batchSize, batchResults.length))
AdaptiveDelay ==
  /\ pc = "delay" /\ exited = "no"
  /\ lastDelay' = <<[delay |-> calculateAdaptiveDelay(batchSize, Len(batchResults)),
                      fallbacks |-> Cardinality({p \in DOMAIN batchResults :
                                      batchResults[p].number \in fallbackIds})]>>
  /\ pc' = "word"
  /\ i' = i + batchSize
  /\ batchResults' = <<>>
  /\ UNCHANGED <<cfgVars, batchVars, valVars, callVars, poolVars, exited, browserVars, threadVars, wordVars, todo, j,
                 translatedWords, status, fileVars, gatewayCalls, sessions,
                 fallbackIds>>

\* saveTranslatedTerminology(translatedWords, outputPath), then the command's
\* finally block
SaveFinal ==
  /\ pc = "final" /\ exited = "no"
  /\ outputFile' = <<translatedWords>>
  /\ pc' = "cleanup"
  /\ mainTodo' = EndOfCommand("exit0")
  /\ UNCHANGED <<cfgVars, batchVars, valVars, callVars, poolVars, exited, browserVars, mainCl, sig, wordVars, loopVars,
                 backupFiles, obsVars>>

(* ------------------------------ cleanup -------------------------------- *)
Resources == <<"page", "context", "browser">>

Field(r, pg, cx, br) == IF r = "page" THEN pg ELSE IF r = "context" THEN cx ELSE br

\* BrowserManager.cleanup: the first resource from position n on whose field
\* is not null (close() is called on it and awaited), "done" when none is
RECURSIVE FirstToClose(_, _, _, _)
FirstToClose(n, pg, cx, br) ==
  IF n > Len(Resources) THEN "done"
  ELSE IF Field(Resources[n], pg, cx, br) THEN Resources[n]
  ELSE FirstToClose(n + 1, pg, cx, br)

Position(r) == CHOOSE n \in 1..Len(Resources) : Resources[n] = r

CloseCalled(r) ==
  IF r = "done" THEN closeCalls ELSE [closeCalls EXCEPT ![r] = @ + 1]

\* A cleanup call starts: translator.cleanup() when it is the processor's
\* cleanup, then BrowserManager.cleanup() up to its first await.  Gives the
\* close() awaited, "done" when the call returns at once.
CleanupStarts(kind, stage) ==
  /\ translatorInstance' = IF kind = "processor" /\ translator THEN FALSE
                           ELSE translatorInstance
  /\ stage = FirstToClose(1, page, context, browser)
  /\ closeCalls' = CloseCalled(stage)
  /\ UNCHANGED <<browser, context, page, translator>>

\* how an awaited close() can settle: TRUE fulfilled, FALSE rejected
CloseOutcomes == IF closeReliable THEN {TRUE} ELSE BOOLEAN

\* The awaited close() of resource r settles: fulfilled, the field is set to
\* null and the next resource is closed; rejected, cleanup logs and returns.
CleanupResumes(r, ok, stage) ==
  LET pg == page /\ r # "page"
      cx == context /\ r # "context"
      br == browser /\ r # "browser"
  IN IF ok
       THEN /\ page' = pg /\ context' = cx /\ browser' = br
            /\ stage = FirstToClose(Position(r) + 1, pg, cx, br)
            /\ closeCalls' = CloseCalled(stage)
            /\ UNCHANGED <<translator, translatorInstance>>
       ELSE /\ stage = "done"
            /\ UNCHANGED browserVars

\* a cleanup call of the command (initialize's catch blocks, the finally block)
MainCleanupStart ==
  /\ pc = "cleanup" /\ exited = "no" /\ mainCl = "none"
  /\ Head(mainTodo) \in {"browser", "processor"}
  /\ \E stage \in {"page", "context", "browser", "done"} :
       /\ CleanupStarts(Head(mainTodo), stage)
       /\ IF stage = "done"
            THEN mainTodo' = Tail(mainTodo) /\ UNCHANGED mainCl
            ELSE mainCl' = stage /\ UNCHANGED mainTodo
  /\ UNCHANGED <<cfgVars, batchVars, valVars, callVars, poolVars, pc, exited, sig, wordVars, loopVars, fileVars, obsVars>>

MainCleanupResume ==
  /\ pc = "cleanup" /\ exited = "no" /\ mainCl # "none"
  /\ \E ok \in CloseOutcomes, stage \in {"page", "context", "browser", "done"} :
       /\ CleanupResumes(mainCl, ok, stage)
       /\ IF stage = "done"
            THEN mainTodo' = Tail(mainTodo) /\ mainCl' = "none"
            ELSE mainCl' = stage /\ UNCHANGED mainTodo
  /\ UNCHANGED <<cfgVars, batchVars, valVars, callVars, poolVars, pc, exited, sig, wordVars, loopVars, fileVars, obsVars>>

\* run() ends: process.exit(1) in its catch block, or the process ends by
\* itself once nothing is pending
MainExit ==
  /\ pc = "cleanup" /\ exited = "no" /\ mainCl = "none"
  /\ Head(mainTodo) \in {"exit0", "exit1"}
  /\ Head(mainTodo) = "exit0" => \A s \in DOMAIN sig : sig[s] = "idle"
  /\ exited' = IF Head(mainTodo) = "exit0" THEN "0" ELSE "1"
  /\ pc' = "exited"
  /\ UNCHANGED <<cfgVars, batchVars, valVars, callVars, poolVars, browserVars, threadVars, wordVars, loopVars, fileVars, obsVars>>

(* ------------------------------ signals -------------------------------- *)
\* SIGINT / SIGTERM: gracefulShutdown up to the first close() it awaits
Signal(s) ==
  /\ exited = "no" /\ sig[s] = "idle"
  /\ \E stage \in {"page", "context", "browser", "done"} :
       /\ CleanupStarts("processor", stage)
       /\ sig' = [sig EXCEPT ![s] = stage]
  /\ UNCHANGED <<cfgVars, batchVars, valVars, callVars, poolVars, pc, exited, mainTodo, mainCl, wordVars, loopVars, fileVars, obsVars>>

SignalCleanupResume(s) ==
  /\ exited = "no" /\ sig[s] \in {"page", "context", "browser"}
  /\ \E ok \in CloseOutcomes, stage \in {"page", "context", "browser", "done"} :
       /\ CleanupResumes(sig[s], ok, stage)
       /\ sig' = [sig EXCEPT ![s] = stage]
  /\ UNCHANGED <<cfgVars, batchVars, valVars, callVars, poolVars, pc, exited, mainTodo, mainCl, wordVars, loopVars, fileVars, obsVars>>

\* "Cleanup completed.": process.exit(0)
SignalExit(s) ==
  /\ exited = "no" /\ sig[s] = "done"
  /\ exited' = "0"
  /\ UNCHANGED <<cfgVars, batchVars, valVars, callVars, poolVars, pc, browserVars, threadVars, wordVars, loopVars, fileVars, obsVars>>

(* ----------------------------- initialize ------------------------------ *)
\* BrowserManager.initialize fails: its catch block, then the catch block of
\* TranslationProcessor.initialize, then the command's finally block
BrowserInitFails == <<"browser", "processor", "processor", "exit1">>

\* TranslationProcessor.initialize fails after the browser is up
ProcessorInitFails == <<"processor", "processor", "exit1">>

InitStep(at) == pc = at /\ exited = "no"

\* chromium.launch
Launch ==
  /\ InitStep("launch")
  /\ \E ok \in BOOLEAN :
       IF ok THEN /\ browser' = TRUE /\ pc' = "newContext" /\ UNCHANGED mainTodo
       ELSE /\ pc' = "cleanup" /\ mainTodo' = BrowserInitFails /\ UNCHANGED browser
  /\ UNCHANGED <<cfgVars, batchVars, valVars, callVars, poolVars, exited, context, page, translator, translatorInstance,
                 closeCalls, mainCl, sig, wordVars, loopVars, fileVars, obsVars>>

\* this.browser.newContext: fails on a browser that is closed (or null)
NewContext ==
  /\ InitStep("newContext")
  /\ \E ok \in BOOLEAN :
       /\ ok => browser /\ closeCalls.browser = 0
       /\ IF ok THEN /\ context' = TRUE /\ pc' = "newPage" /\ UNCHANGED mainTodo
          ELSE /\ pc' = "cleanup" /\ mainTodo' = BrowserInitFails /\ UNCHANGED context
  /\ UNCHANGED <<cfgVars, batchVars, valVars, callVars, poolVars, exited, browser, page, translator, translatorInstance,
                 closeCalls, mainCl, sig, wordVars, loopVars, fileVars, obsVars>>

\* this.context.newPage
NewPage ==
  /\ InitStep("newPage")
  /\ \E ok \in BOOLEAN :
       /\ ok => context /\ closeCalls.context = 0 /\ closeCalls.browser = 0
       /\ IF ok THEN /\ page' = TRUE /\ pc' = "goto" /\ UNCHANGED mainTodo
          ELSE /\ pc' = "cleanup" /\ mainTodo' = BrowserInitFails /\ UNCHANGED page
  /\ UNCHANGED <<cfgVars, batchVars, valVars, callVars, poolVars, exited, browser, context, translator, translatorInstance,
                 closeCalls, mainCl, sig, wordVars, loopVars, fileVars, obsVars>>

\* this.page.goto("about:blank")
Goto ==
  /\ InitStep("goto")
  /\ \E ok \in BOOLEAN :
       /\ ok => PageUsable
       /\ IF ok THEN pc' = "apiCheck" /\ UNCHANGED mainTodo
          ELSE pc' = "cleanup" /\ mainTodo' = BrowserInitFails
  /\ UNCHANGED <<cfgVars, batchVars, valVars, callVars, poolVars, exited, browserVars, mainCl, sig, wordVars, loopVars,
                 fileVars, obsVars>>

\* getChromeVersion, isTranslatorAPIAvailable, new ChromeTranslator
ApiCheck ==
  /\ InitStep("apiCheck")
  /\ \E ok \in BOOLEAN :
       /\ ok => PageUsable
       /\ IF ok THEN /\ translator' = TRUE /\ pc' = "translatorInit" /\ UNCHANGED mainTodo
          ELSE /\ pc' = "cleanup" /\ mainTodo' = ProcessorInitFails /\ UNCHANGED translator
  /\ UNCHANGED <<cfgVars, batchVars, valVars, callVars, poolVars, exited, browser, context, page, translatorInstance,
                 closeCalls, mainCl, sig, wordVars, loopVars, fileVars, obsVars>>

\* ChromeTranslator.initialize: Translator.create in the page
TranslatorInit ==
  /\ InitStep("translatorInit")
  /\ \E ok \in BOOLEAN :
       /\ ok => PageUsable
       /\ IF ok THEN /\ translatorInstance' = TRUE /\ pc' = "load"
                     /\ sessions' = sessions + 1
                     /\ UNCHANGED mainTodo
          ELSE /\ pc' = "cleanup" /\ mainTodo' = ProcessorInitFails
               /\ UNCHANGED <<translatorInstance, sessions>>
  /\ UNCHANGED <<cfgVars, batchVars, valVars, callVars, poolVars, exited, browser, context, page, translator,
                 closeCalls, mainCl, sig, wordVars, loopVars, fileVars,
                 gatewayCalls, lastDelay, fallbackIds>>

(* ------------------- translateWordsBatch (translate.ts) ---------------- *)
\* word.confer && word.confer.length > 0
NonEmptyArray(o) == TruthyArray(o) /\ Len(o[1]) > 0

\* the texts of translationTasks: the name, then the definitions
translationTexts(word) ==
  <<word.name>> \o [p \in 1..Len(word.definitions) |-> word.definitions[p].text]

\* the texts of optionalTasks: confer, example, note, alias
optionalTexts(word) ==
  (IF NonEmptyArray(word.confer) THEN word.confer[1] ELSE <<>>)
  \o (IF TruthyString(word.example) THEN <<word.example[1]>> ELSE <<>>)
  \o (IF TruthyString(word.note) THEN <<word.note[1]>> ELSE <<>>)
  \o (IF NonEmptyArray(word.alias) THEN word.alias[1] ELSE <<>>)

\* a || b on strings
OrText(a, b) == IF a # <<>> THEN a ELSE b

\* the settled states of a translator.translate promise: fulfilled with a
\* translation, fulfilled with the empty string, rejected
Settlements == {"ok", "empty", "rejected"}

\* the result object translateWord builds from the calls' values
BuildResult(word, calls) ==
  LET texts == translationTexts(word) \o optionalTexts(word)
      val(n) == IF calls[n] = "ok" THEN JaText(texts[n]) ELSE <<>>
      nMain == Len(translationTexts(word))
      nConfer == IF NonEmptyArray(word.confer) THEN Len(word.confer[1]) ELSE 0
      nExample == IF TruthyString(word.example) THEN 1 ELSE 0
      nNote == IF TruthyString(word.note) THEN 1 ELSE 0
      nAlias == IF NonEmptyArray(word.alias) THEN Len(word.alias[1]) ELSE 0
  IN [number |-> word.number, name |-> word.name,
      name_ja |-> OrText(val(1), word.name),
      definitions |-> [p \in 1..Len(word.definitions) |->
                         [text |-> word.definitions[p].text,
                          text_ja |-> OrText(val(1 + p), word.definitions[p].text),
                          reference |-> word.definitions[p].reference]],
      confer |-> IF nConfer > 0 THEN word.confer ELSE <<>>,
      confer_ja |-> IF nConfer > 0 THEN <<[q \in 1..nConfer |-> val(nMain + q)]>> ELSE <<>>,
      example |-> IF nExample > 0 THEN word.example ELSE <<>>,
      example_ja |-> IF nExample > 0 THEN <<val(nMain + nConfer + 1)>> ELSE <<>>,
      note |-> IF nNote > 0 THEN word.note ELSE <<>>,
      note_ja |-> IF nNote > 0 THEN <<val(nMain + nConfer + nExample + 1)>> ELSE <<>>,
      alias |-> IF nAlias > 0 THEN word.alias ELSE <<>>,
      alias_ja |-> IF nAlias > 0
                     THEN <<[q \in 1..nAlias |->
                               val(nMain + nConfer + nExample + nNote + q)]>>
                     ELSE <<>>]

\* the object translateWord returns from its catch block
CatchResult(word) ==
  [number |-> word.number, name |-> word.name, name_ja |-> word.name,
   definitions |-> [p \in 1..Len(word.definitions) |->
                      [text |-> word.definitions[p].text,
                       text_ja |-> word.definitions[p].text,
                       reference |-> word.definitions[p].reference]],
   confer |-> IF TruthyArray(word.confer) THEN word.confer ELSE <<>>,
   confer_ja |-> IF TruthyArray(word.confer) THEN word.confer ELSE <<>>,
   example |-> IF TruthyString(word.example) THEN word.example ELSE <<>>,
   example_ja |-> IF TruthyString(word.example) THEN word.example ELSE <<>>,
   note |-> IF TruthyString(word.note) THEN word.note ELSE <<>>,
   note_ja |-> IF TruthyString(word.note) THEN word.note ELSE <<>>,
   alias |-> IF TruthyArray(word.alias) THEN word.alias ELSE <<>>,
   alias_ja |-> IF TruthyArray(word.alias) THEN word.alias ELSE <<>>]

\* translateWord after one of its calls has settled: still awaiting, or
\* returning a result.  Promise.all rejects with the first rejection and is
\* fulfilled when every promise is; the optional tasks are awaited after the
\* translation tasks.
Awaited(word, calls) ==
  LET nMain == Len(translationTexts(word))
      main == 1..nMain
      opt == {n \in DOMAIN calls : n > nMain}
      rejected(S) == \E n \in S : calls[n] = "rejected"
      pending(S) == \E n \in S : calls[n] = "pending"
  IN IF rejected(main) THEN <<CatchResult(word)>>
     ELSE IF pending(main) THEN <<>>
     ELSE IF rejected(opt) THEN <<CatchResult(word)>>
     ELSE IF pending(opt) THEN <<>>
     ELSE <<BuildResult(word, calls)>>

\* batch.map(translateWord): every call of every term of the batch is issued
IssueBatch(from) ==
  LET batchLen == Min(batchSize, Len(words) - from)
  IN [p \in 1..batchLen |->
        [calls |-> [n \in 1..Len(translationTexts(words[from + p])
                                 \o optionalTexts(words[from + p])) |-> "pending"],
         result |-> <<>>]]

PendingCalls(ts) ==
  UNION {{<<p, n>> : n \in {m \in DOMAIN ts[p].calls : ts[p].calls[m] = "pending"}} :
           p \in DOMAIN ts}

\* translateWordsBatch is entered: Translator.create, then the first batch
StartBatches ==
  /\ pc = "create" /\ command = "batch"
  /\ \E created \in BOOLEAN :
       IF ~created THEN /\ pc' = "rejected"
                        /\ UNCHANGED <<tasks, i, gatewayCalls, sessions>>
       ELSE IF Len(words) = 0 THEN /\ pc' = "returned"
                                   /\ sessions' = sessions + 1
                                   /\ UNCHANGED <<tasks, i, gatewayCalls>>
       ELSE /\ pc' = "batch"
            /\ sessions' = sessions + 1
            /\ i' = 0
            /\ tasks' = IssueBatch(0)
            /\ gatewayCalls' = Cardinality(PendingCalls(IssueBatch(0)))
  /\ UNCHANGED <<cfgVars, batchVars, valVars, callVars, exited, browserVars, threadVars, wordVars, todo, j,
                 batchResults, translatedWords, status, stray, settleOrder, fileVars,
                 lastDelay, fallbackIds>>

\* a translator.translate promise of the batch settles; the translateWord
\* that awaits it goes on if that ends its wait
CallSettles ==
  /\ pc = "batch"
  /\ \E c \in PendingCalls(tasks), how \in Settlements :
       LET p == c[1]
           calls == [tasks[p].calls EXCEPT ![c[2]] = how]
           result == IF Present(tasks[p].result) THEN tasks[p].result
                     ELSE Awaited(words[i + p], calls)
       IN /\ tasks' = [tasks EXCEPT ![p] = [calls |-> calls, result |-> result]]
          /\ settleOrder' = IF Present(result) /\ ~Present(tasks[p].result)
                              THEN Append(settleOrder, words[i + p].number)
                              ELSE settleOrder
  /\ UNCHANGED <<cfgVars, batchVars, valVars, callVars, pc, exited, browserVars, threadVars, wordVars, loopVars,
                 stray, fileVars, obsVars>>

\* Promise.all over the batch is fulfilled: results.push(...batchResults),
\* then the next batch is issued or the results are returned
CollectBatch ==
  /\ pc = "batch"
  /\ \A p \in DOMAIN tasks : Present(tasks[p].result)
  /\ translatedWords' = translatedWords \o [p \in DOMAIN tasks |-> tasks[p].result[1]]
  /\ stray' = stray + Cardinality(PendingCalls(tasks))
  /\ i' = i + batchSize
  /\ IF i + batchSize < Len(words)
       THEN /\ tasks' = IssueBatch(i + batchSize)
            /\ gatewayCalls' = gatewayCalls
                                 + Cardinality(PendingCalls(IssueBatch(i + batchSize)))
            /\ UNCHANGED pc
       ELSE /\ tasks' = <<>>
            /\ pc' = "returned"
            /\ UNCHANGED gatewayCalls
  /\ UNCHANGED <<cfgVars, batchVars, valVars, callVars, exited, browserVars, threadVars, wordVars, todo, j,
                 batchResults, status, settleOrder, fileVars, sessions, lastDelay,
                 fallbackIds>>

\* a call of a term whose result was already collected settles
StraySettles ==
  /\ command = "batch" /\ stray > 0
  /\ stray' = stray - 1
  /\ UNCHANGED <<cfgVars, batchVars, valVars, callVars, pc, exited, browserVars, threadVars, wordVars, loopVars,
                 tasks, settleOrder, fileVars, obsVars>>

(* --------------------------- specifications ---------------------------- *)
InitFields ==
  /\ exited = "no"
  /\ browser = FALSE /\ context = FALSE /\ page = FALSE
  /\ translator = FALSE /\ translatorInstance = FALSE
  /\ closeCalls = [page |-> 0, context |-> 0, browser |-> 0]
  /\ mainTodo = <<>> /\ mainCl = "none"
  /\ todo = <<>> /\ i = 0 /\ j = 1
  /\ fld = "name" /\ k = 1 /\ attempts = 0 /\ trs = <<>>
  /\ cur = <<>> /\ batchResults = <<>> /\ translatedWords = <<>>
  /\ tasks = <<>> /\ stray = 0 /\ settleOrder = <<>>
  /\ status = NoStatus
  /\ outputFile = <<>> /\ backupFiles = <<>>
  /\ gatewayCalls = 0 /\ sessions = 0
  /\ callLog = <<>> /\ lastDelay = <<>> /\ fallbackIds = {}

\* no single translate call is made
NoCall == callRequest = <<>> /\ callEvaluated = <<>> /\ callResponse = <<>>

\* no validation is made
NoValidation ==
  /\ translatedFile = <<>> /\ originalRead = <<>> /\ translatedRead = <<>>
  /\ validated = <<>> /\ valResult = <<>>

\* translateBatch is not called
NoBatch ==
  /\ batchRequests = <<>> /\ batchTries = <<>> /\ batchWaits = <<>> /\ batchLog = <<>>

InitRun == pc = "launch" /\ InitFields /\ NoCall /\ NoValidation /\ NoBatch

\* no signal handler is running yet; signals of them will be delivered
NoSignalYet(signals) == sig = [s \in 1..signals |-> "idle"]

\* a command that is not interrupted, over any dataset
InitPipeline ==
  /\ command \in {"translate", "resume"}
  /\ words \in Datasets
  /\ checkpoint \in (IF command = "resume" THEN Checkpoints(words) ELSE {<<>>})
  /\ batchSize \in 1..MaxBatch
  /\ retryCount \in 0..MaxRetry
  /\ gatewayReliable = FALSE
  /\ closeReliable = FALSE
  /\ NoSignalYet(0)
  /\ InitRun

\* a command that receives up to MaxSignals signals, over minimal terms; the
\* gateway fails only once the page is being closed
InitInterrupted ==
  /\ command \in {"translate", "resume"}
  /\ words \in MinimalDatasets
  /\ checkpoint \in (IF command = "resume" THEN Checkpoints(words) ELSE {<<>>})
  /\ batchSize \in 1..MaxBatch
  /\ retryCount = MaxRetry
  /\ gatewayReliable = TRUE
  /\ closeReliable \in BOOLEAN
  /\ NoSignalYet(MaxSignals)
  /\ InitRun

\* an uninterrupted translate command over a long dataset, the gateway
\* reliable
InitLong ==
  /\ command = "translate"
  /\ words \in LongDatasets
  /\ checkpoint = <<>>
  /\ batchSize \in LongBatchSizes
  /\ retryCount = MaxRetry
  /\ gatewayReliable = TRUE
  /\ closeReliable = FALSE
  /\ NoSignalYet(0)
  /\ InitRun

\* an uninterrupted resume over a long dataset from a backup file that a run
\* over the dataset wrote
InitLongResume ==
  /\ command = "resume"
  /\ words \in LongDatasets
  /\ checkpoint \in WrittenCheckpoints(words)
  /\ batchSize \in LongBatchSizes
  /\ retryCount = MaxRetry
  /\ gatewayReliable = TRUE
  /\ closeReliable = FALSE
  /\ NoSignalYet(0)
  /\ InitRun

\* translateWordsBatch over any dataset, its calls settling in any order
InitConcurrent ==
  /\ command = "batch"
  /\ words \in SmallDatasets
  /\ checkpoint = <<>>
  /\ batchSize \in 1..MaxBatch
  /\ retryCount = MaxRetry
  /\ gatewayReliable = FALSE
  /\ closeReliable = FALSE
  /\ NoSignalYet(0)
  /\ InitFields /\ NoCall /\ NoValidation /\ NoBatch
  /\ pc = "create"

Init == InitPipeline \/ InitInterrupted \/ InitLong \/ InitLongResume \/ InitConcurrent

RunStep ==
  \/ Launch \/ NewContext \/ NewPage \/ Goto \/ ApiCheck \/ TranslatorInit
  \/ LoadTranslate \/ LoadResume
  \/ TranslateName \/ TranslateAlias \/ TranslateDefinition
  \/ TranslateConfer \/ TranslateExample \/ TranslateNote
  \/ SavePeriodic \/ AdaptiveDelay \/ SaveFinal
  \/ MainCleanupStart \/ MainCleanupResume \/ MainExit

SignalStep ==
  \/ \E s \in DOMAIN sig : Signal(s)
  \/ \E s \in DOMAIN sig : SignalCleanupResume(s)
  \/ \E s \in DOMAIN sig : SignalExit(s)

ConcurrentStep == StartBatches \/ CallSettles \/ CollectBatch \/ StraySettles

Next == RunStep \/ SignalStep \/ ConcurrentStep

Spec == Init /\ [][Next]_vars

\* an uninterrupted command over a small dataset
InitLive ==
  /\ command \in {"translate", "resume"}
  /\ words \in SmallDatasets
  /\ checkpoint \in (IF command = "resume" THEN Checkpoints(words) ELSE {<<>>})
  /\ batchSize \in 1..MaxBatch
  /\ retryCount \in 0..MaxRetry
  /\ gatewayReliable = FALSE
  /\ closeReliable = FALSE
  /\ NoSignalYet(0)
  /\ InitRun

InitUninterrupted == InitLive \/ InitLong

\* an uninterrupted command whose pending step is always taken eventually: the
\* event loop runs every continuation whose awaited promise has settled, and
\* every gateway call and every close() settles
LiveSpec == InitUninterrupted /\ [][RunStep]_vars /\ WF_vars(RunStep)

(* ------------------------------ validator ------------------------------ *)
\* A term of the parsed translated file: every property is optional, <<>> when
\* the JSON object lacks it.
\* JSON.parse(JSON.stringify(translatedWord)): properties that are undefined
\* are left out, an empty string or an empty array is kept
Parsed(tw) ==
  [number |-> <<tw.number>>, name |-> <<tw.name>>, name_ja |-> <<tw.name_ja>>,
   definitions |-> <<[p \in 1..Len(tw.definitions) |->
                        [text |-> <<tw.definitions[p].text>>,
                         text_ja |-> <<tw.definitions[p].text_ja>>]]>>,
   alias |-> tw.alias, alias_ja |-> tw.alias_ja,
   confer |-> tw.confer, confer_ja |-> tw.confer_ja,
   example |-> tw.example, example_ja |-> tw.example_ja,
   note |-> tw.note, note_ja |-> tw.note_ja]

ParsedAll(tws) == [p \in 1..Len(tws) |-> Parsed(tws[p])]

\* a message pushed to errors or warnings: its wording, the id of the term
\* it names (<<>> for undefined) and the definition it names (0 for none)
Finding(kind, number, index) == [kind |-> kind, number |-> number, index |-> index]

When(cond, finding) == IF cond THEN <<finding>> ELSE <<>>

RECURSIVE Flatten(_)
Flatten(ss) == IF ss = <<>> THEN <<>> ELSE Head(ss) \o Flatten(Tail(ss))

\* the elements of a sequence in the order of their first occurrence (the
\* iteration order of a Set built from it)
RECURSIVE Distinct(_)
Distinct(q) ==
  IF q = <<>> THEN <<>>
  ELSE LET front == SubSeq(q, 1, Len(q) - 1)
           d == Distinct(front)
       IN IF \E p \in DOMAIN front : front[p] = q[Len(q)] THEN d
          ELSE Append(d, q[Len(q)])

Contains(text, tok) == \E p \in DOMAIN text : text[p] = tok

ToLowerToken(tok) ==
  IF tok = "A" THEN "a" ELSE IF tok = "B" THEN "b" ELSE IF tok = "C" THEN "c"
  ELSE IF tok = "D" THEN "d" ELSE IF tok = "E" THEN "e" ELSE IF tok = "N" THEN "n"
  ELSE IF tok = "X" THEN "x" ELSE tok

\* String.prototype.toLowerCase
ToLowerCase(text) == [p \in 1..Len(text) |-> ToLowerToken(text[p])]

validateWordStructure(word) ==
  When(~Present(word.number), Finding("Word missing number field", <<>>, 0))
  \o When(~TruthyString(word.name), Finding("missing name field", word.number, 0))
  \o When(~TruthyString(word.name_ja), Finding("missing name_ja field", word.number, 0))
  \o When(~Present(word.definitions) \/ Len(word.definitions[1]) = 0,
          Finding("missing or empty definitions", word.number, 0))
  \o (IF Present(word.definitions)
        THEN Flatten([p \in 1..Len(word.definitions[1]) |->
               When(~TruthyString(word.definitions[1][p].text),
                    Finding("definition missing text", word.number, p))
               \o When(~TruthyString(word.definitions[1][p].text_ja),
                       Finding("definition missing text_ja", word.number, p))])
        ELSE <<>>)
  \o When(Present(word.alias)
            /\ (~Present(word.alias_ja) \/ Len(word.alias[1]) # Len(word.alias_ja[1])),
          Finding("alias and alias_ja length mismatch", word.number, 0))
  \o When(Present(word.confer)
            /\ (~Present(word.confer_ja) \/ Len(word.confer[1]) # Len(word.confer_ja[1])),
          Finding("confer and confer_ja length mismatch", word.number, 0))
  \o When(TruthyString(word.example) /\ ~TruthyString(word.example_ja),
          Finding("has example but missing example_ja", word.number, 0))
  \o When(TruthyString(word.note) /\ ~TruthyString(word.note_ja),
          Finding("has note but missing note_ja", word.number, 0))

\* the ids of the original terms, as the translated file holds ids
OriginalNumbers(originalData) ==
  Distinct([p \in 1..Len(originalData) |-> <<originalData[p].number>>])

TranslatedNumbers(translatedData) ==
  Distinct([p \in 1..Len(translatedData) |-> translatedData[p].number])

InSeq(x, q) == \E p \in DOMAIN q : q[p] = x

\* no missing term reported
MissingTermsUnreported(on, tn) == <<>>

\* for (const number of originalNumbers) if (!translatedNumbers.has(number))
MissingTerms(on, tn) ==
  Flatten([p \in 1..Len(on) |->
    When(~InSeq(on[p], tn), Finding("Missing translated term", on[p], 0))])

validateStructure(originalData, translatedData) ==
  LET on == OriginalNumbers(originalData)
      tn == TranslatedNumbers(translatedData)
  IN [errors |->
        When(Len(originalData) # Len(translatedData), Finding("Data length mismatch", <<>>, 0))
        \o MissingTerms(on, tn)
        \o Flatten([p \in 1..Len(translatedData) |->
             validateWordStructure(translatedData[p])]),
      warnings |->
        Flatten([p \in 1..Len(tn) |->
          When(~InSeq(tn[p], on), Finding("Extra translated term found", tn[p], 0))])]

\* checkSuspiciousPatterns: the three context phrases are parts of the
\* template's phrase, so a name_ja holding that phrase holds each of them
checkSuspiciousPatterns(word) ==
  LET ja == word.name_ja[1]
      remnant == When(Contains(ja, CTX),
                      Finding("name_ja contains context prefix remnant", word.number, 0))
  IN remnant \o remnant \o remnant
     \o When(TextLength(ja) > TextLength(word.name[1]) * 3,
             Finding("name_ja unusually long compared to original", word.number, 0))
     \o When(Contains(ja, "&") \/ Contains(ja, "<") \/ Contains(ja, ">"),
             Finding("name_ja contains HTML entities or special characters",
                     word.number, 0))

\* validateContent reads word.name_ja.trim(), word.definitions.length and
\* word.name.length: a TypeError when the property is undefined
ContentThrows(word) ==
  ~Present(word.name_ja) \/ ~Present(word.definitions) \/ ~Present(word.name)

ContentErrors(word) ==
  When(Trim(word.name_ja[1]) = <<>>, Finding("has empty name_ja", word.number, 0))
  \o Flatten([p \in 1..Len(word.definitions[1]) |->
       When(TruthyString(word.definitions[1][p].text_ja)
              /\ Trim(word.definitions[1][p].text_ja[1]) = <<>>,
            Finding("definition has empty text_ja", word.number, p))])

ContentWarnings(word) ==
  When(word.name_ja = word.name,
       Finding("name_ja identical to original name", word.number, 0))
  \o Flatten([p \in 1..Len(word.definitions[1]) |->
       When(word.definitions[1][p].text_ja = word.definitions[1][p].text,
            Finding("definition text_ja identical to original text", word.number, p))])
  \o checkSuspiciousPatterns(word)

\* validateContent when no term makes it throw
validateContent(translatedData) ==
  [errors |-> Flatten([p \in 1..Len(translatedData) |-> ContentErrors(translatedData[p])]),
   warnings |-> Flatten([p \in 1..Len(translatedData) |->
                           ContentWarnings(translatedData[p])])]

\* translatedMap.get(number): the last term of the translated data with the id
Lookup(translatedData, number) ==
  LET at == {p \in DOMAIN translatedData : translatedData[p].number = number}
  IN IF at = {} THEN <<>>
     ELSE <<translatedData[CHOOSE p \in at : \A q \in at : q <= p]>>

validateCompleteness(originalData, translatedData) ==
  LET found(p) == Lookup(translatedData, <<originalData[p].number>>)
      number(p) == <<originalData[p].number>>
  IN [errors |->
        Flatten([p \in 1..Len(originalData) |->
          When(found(p) = <<>>, Finding("Missing translation for word", number(p), 0))]),
      warnings |->
        Flatten([p \in 1..Len(originalData) |->
          IF found(p) = <<>> THEN <<>>
          ELSE When(TruthyArray(originalData[p].alias) /\ ~Present(found(p)[1].alias_ja),
                    Finding("translation is missing alias_ja", number(p), 0))
               \o When(TruthyArray(originalData[p].confer)
                         /\ ~Present(found(p)[1].confer_ja),
                       Finding("translation is missing confer_ja", number(p), 0))
               \o When(TruthyString(originalData[p].example)
                         /\ ~TruthyString(found(p)[1].example_ja),
                       Finding("translation is missing example_ja", number(p), 0))
               \o When(TruthyString(originalData[p].note)
                         /\ ~TruthyString(found(p)[1].note_ja),
                       Finding("translation is missing note_ja", number(p), 0))])]

\* word.name_ja.toLowerCase().trim()
QualityKey(word) == Trim(ToLowerCase(word.name_ja[1]))

\* validateQuality when no term makes it throw (name_ja is read as in
\* validateContent)
validateQuality(translatedData) ==
  LET keys == Distinct([p \in 1..Len(translatedData) |-> QualityKey(translatedData[p])])
      count(key) == Cardinality({p \in DOMAIN translatedData :
                                   QualityKey(translatedData[p]) = key})
  IN [errors |-> <<>>,
      warnings |->
        Flatten([p \in 1..Len(keys) |->
          When(count(keys[p]) > 1 /\ keys[p] # <<>>,
               Finding("Duplicate translation", <<>>, 0))])
        \o Flatten([p \in 1..Len(translatedData) |->
             When(TextLength(translatedData[p].name_ja[1]) < 2
                    /\ TextLength(translatedData[p].name[1]) > 5,
                  Finding("has very short translation", translatedData[p].number, 0))])]

\* statistics that count a whitespace-only name_ja as translated
calculateStatisticsUntrimmed(originalData, translatedData) ==
  LET found(p) == Lookup(translatedData, <<originalData[p].number>>)
  IN [totalWords |-> Len(originalData),
      translatedWords |-> Len(translatedData),
      missingTranslations |->
        Cardinality({p \in DOMAIN originalData : found(p) = <<>>}),
      emptyTranslations |->
        Cardinality({p \in DOMAIN originalData :
                       found(p) # <<>> /\ ~TruthyString(found(p)[1].name_ja)})]

calculateStatistics(originalData, translatedData) ==
  LET found(p) == Lookup(translatedData, <<originalData[p].number>>)
  IN [totalWords |-> Len(originalData),
      translatedWords |-> Len(translatedData),
      missingTranslations |->
        Cardinality({p \in DOMAIN originalData : found(p) = <<>>}),
      emptyTranslations |->
        Cardinality({p \in DOMAIN originalData :
                       /\ found(p) # <<>>
                       /\ \/ ~TruthyString(found(p)[1].name_ja)
                          \/ Trim(found(p)[1].name_ja[1]) = <<>>})]

\* validateTranslation rejects with the TypeError of validateContent
ValidationThrows(translatedData) ==
  \E p \in DOMAIN translatedData : ContentThrows(translatedData[p])

\* every result counted as valid
IsValidAlways(errors) == TRUE

\* isValid: errors.length === 0
IsValid(errors) == Len(errors) = 0

\* validateTranslation when it does not throw
validateTranslation(originalData, translatedData) ==
  LET structure == validateStructure(originalData, translatedData)
      content == validateContent(translatedData)
      completeness == validateCompleteness(originalData, translatedData)
      quality == validateQuality(translatedData)
      errs == structure.errors \o content.errors \o completeness.errors \o quality.errors
  IN [isValid |-> IsValid(errs),
      errors |-> errs,
      warnings |-> structure.warnings \o content.warnings \o completeness.warnings
                   \o quality.warnings,
      statistics |-> calculateStatistics(originalData, translatedData)]

\* the result validateFromFiles returns from its catch block
LoadFailure ==
  [isValid |-> FALSE,
   errors |-> <<Finding("Failed to load or parse files", <<>>, 0)>>,
   warnings |-> <<>>,
   statistics |-> [totalWords |-> 0, translatedWords |-> 0, missingTranslations |-> 0,
                   emptyTranslations |-> 0]]

\* what can be wrong with a term of a translated file
Damages ==
  {"none", "no name_ja", "empty name_ja", "blank name_ja", "no definitions",
   "empty definitions", "no text_ja", "no number"}

Damaged(t, damage) ==
  IF damage = "no name_ja" THEN [t EXCEPT !.name_ja = <<>>]
  ELSE IF damage = "empty name_ja" THEN [t EXCEPT !.name_ja = << <<>> >>]
  ELSE IF damage = "blank name_ja" THEN [t EXCEPT !.name_ja = << <<" ">> >>]
  ELSE IF damage = "no definitions" THEN [t EXCEPT !.definitions = <<>>]
  ELSE IF damage = "empty definitions" THEN [t EXCEPT !.definitions = << <<>> >>]
  ELSE IF damage = "no text_ja" THEN [t EXCEPT !.definitions[1][1].text_ja = <<>>]
  ELSE IF damage = "no number" THEN [t EXCEPT !.number = <<>>]
  ELSE t

\* the entries a translated file can hold for a term: translated or with the
\* original values, whole or damaged
Entries(word) ==
  {Damaged(Parsed(tw), damage) :
     tw \in {Translated(word), createPartialTranslation(word)}, damage \in Damages}

\* per term of the dataset, in its order, an entry or none
RECURSIVE EntriesFor(_)
EntriesFor(ws) ==
  IF ws = <<>> THEN {<<>>}
  ELSE {front \o e : front \in EntriesFor(SubSeq(ws, 1, Len(ws) - 1)),
                     e \in {<<>>} \cup {<<x>> : x \in Entries(ws[Len(ws)])}}

\* the translated files for a dataset: the entries for its terms, then
\* possibly an entry with an id the dataset lacks or a second entry for the
\* first id
TranslatedFiles(ws) ==
  LET extras == {<<>>, <<Parsed(Translated(MinimalWord(Len(ws) + 1)))>>,
                 <<Parsed(createPartialTranslation(MinimalWord(1)))>>}
  IN {entries \o extra : entries \in EntriesFor(ws), extra \in extras}

ValidateStep(at) == command = "validate" /\ pc = at

\* JSON.parse(await fs.readFile(originalPath)): fails on a file that cannot be
\* read or parsed
ReadOriginal ==
  /\ ValidateStep("readOriginal")
  /\ \E ok \in BOOLEAN :
       IF ok THEN /\ originalRead' = <<words>> /\ pc' = "readTranslated"
                  /\ UNCHANGED valResult
       ELSE /\ valResult' = <<LoadFailure>> /\ pc' = "returned"
            /\ UNCHANGED originalRead
  /\ UNCHANGED <<cfgVars, batchVars, translatedFile, translatedRead, validated, callVars, poolVars,
                 exited, browserVars, threadVars, wordVars, loopVars, fileVars, obsVars>>

\* JSON.parse(await fs.readFile(translatedPath)), then validateTranslation
\* is called and runs up to its end
ReadTranslated ==
  /\ ValidateStep("readTranslated")
  /\ \E ok \in BOOLEAN :
       IF ok
         THEN /\ translatedRead' = <<translatedFile>>
              /\ validated' =
                   IF ValidationThrows(translatedFile) THEN <<[throws |-> TRUE]>>
                   ELSE <<[throws |-> FALSE,
                           result |-> validateTranslation(originalRead[1], translatedFile)]>>
              /\ pc' = "validated"
              /\ UNCHANGED valResult
         ELSE /\ valResult' = <<LoadFailure>> /\ pc' = "returned"
              /\ UNCHANGED <<translatedRead, validated>>
  /\ UNCHANGED <<cfgVars, batchVars, translatedFile, originalRead, callVars, poolVars,
                 exited, browserVars, threadVars, wordVars, loopVars, fileVars, obsVars>>

\* the awaited validateTranslation settles: its result is returned, or the
\* catch block returns the load failure
ValidationReturns ==
  /\ ValidateStep("validated")
  /\ valResult' = IF validated[1].throws THEN <<LoadFailure>> ELSE <<validated[1].result>>
  /\ pc' = "returned"
  /\ UNCHANGED <<cfgVars, batchVars, translatedFile, originalRead, translatedRead, validated,
                 callVars, poolVars, exited, browserVars, threadVars, wordVars, loopVars,
                 fileVars, obsVars>>

\* validateFromFiles on a dataset and any translated file for it
InitValidate ==
  /\ command = "validate"
  /\ words \in SmallDatasets /\ checkpoint = <<>>
  /\ batchSize = 1 /\ retryCount = 0
  /\ gatewayReliable = FALSE /\ closeReliable = FALSE
  /\ NoSignalYet(0)
  /\ InitFields /\ NoCall /\ NoBatch
  /\ pc = "readOriginal"
  /\ translatedFile \in TranslatedFiles(words)
  /\ originalRead = <<>> /\ translatedRead = <<>>
  /\ validated = <<>> /\ valResult = <<>>

ValidateNext == ReadOriginal \/ ReadTranslated \/ ValidationReturns

ValidateSpec == InitValidate /\ [][ValidateNext]_vars

(* ------------------------ a single translate call --------------------- *)
\* the characters the texts of a single call are made of: a letter, a blank,
\* the two characters of a replacement pattern, and a run of 4964 characters
TextTokens == {"a", " ", "$", "&", "x4964"}

RECURSIVE TextsOfLength(_)
TextsOfLength(n) ==
  IF n = 0 THEN {<<>>}
  ELSE {Append(t, tok) : t \in TextsOfLength(n - 1), tok \in TextTokens}

Texts == UNION {TextsOfLength(n) : n \in 0..MaxTextLen}

\* nameResult.success ? nameResult.translatedText : word.name
OrOriginal(r, text) == IF r.success THEN r.translatedText ELSE text

\* a gateway that returns the text it is given
Echo(text) == [throws |-> FALSE, result |-> text]

\* what page.evaluate can do with the text handed over
\* results without content: the empty string, a blank, the context prefix alone
EmptyResults == {<<>>, <<" ">>, contextPrefixes[1], contextPrefixes[2] \o <<" ">>}

EvaluateOutcomes(text) ==
  {Echo(text), Throws}
  \cup {[throws |-> FALSE, result |-> GatewayResult(text, v)] :
          v \in 1..Len(contextPrefixes)}
  \cup {[throws |-> FALSE, result |-> r] : r \in EmptyResults}

\* translate() up to its await: the early returns, or page.evaluate is called
CallTranslate ==
  /\ pc = "call" /\ command = "text"
  /\ IF ReachesGateway(callRequest)
       THEN /\ callEvaluated' = <<[text |-> TextToTranslate(callRequest), did |-> <<>>]>>
            /\ pc' = "evaluate"
            /\ UNCHANGED callResponse
       ELSE /\ callResponse' = <<translate(callRequest, Throws)>>
            /\ pc' = "returned"
            /\ UNCHANGED callEvaluated
  /\ UNCHANGED <<cfgVars, batchVars, valVars, callRequest, poolVars, exited, browserVars, threadVars,
                 wordVars, loopVars, fileVars, obsVars>>

\* page.evaluate settles and translate() returns its response
EvaluateSettles ==
  /\ pc = "evaluate" /\ command = "text"
  /\ \E gw \in EvaluateOutcomes(callEvaluated[1].text) :
       /\ callEvaluated' = <<[callEvaluated[1] EXCEPT !.did = <<gw>>]>>
       /\ callResponse' = <<translate(callRequest, gw)>>
  /\ pc' = "returned"
  /\ UNCHANGED <<cfgVars, batchVars, valVars, callRequest, poolVars, exited, browserVars, threadVars,
                 wordVars, loopVars, fileVars, obsVars>>

\* one translate call on any text, with or without context
InitCall ==
  /\ command = "text"
  /\ words = <<>> /\ checkpoint = <<>>
  /\ batchSize = 1 /\ retryCount = 0
  /\ gatewayReliable = FALSE /\ closeReliable = FALSE
  /\ NoSignalYet(0)
  /\ InitFields
  /\ pc = "call"
  /\ callRequest \in {createContextRequest(t) : t \in Texts}
                     \cup {createSimpleRequest(t) : t \in Texts}
  /\ callEvaluated = <<>> /\ callResponse = <<>>
  /\ NoValidation /\ NoBatch

CallStep == CallTranslate \/ EvaluateSettles

CallSpec == InitCall /\ [][CallStep]_vars

(* --------------------------- translateBatch ---------------------------- *)
retryDelay == 1000

\* this.config.retryDelay * Math.pow(2, attempts - 1)
backoffDelayFixed(n) == retryDelay

backoffDelay(n) == retryDelay * 2^(n - 1)

MaxRequests == 2

BatchTexts == {<<>>, <<"a">>, <<" ">>}

RECURSIVE RequestsOfLength(_)
RequestsOfLength(n) ==
  IF n = 0 THEN {<<>>}
  ELSE {Append(rs, r) : rs \in RequestsOfLength(n - 1),
                        r \in {createContextRequest(t) : t \in BatchTexts}
                              \cup {createSimpleRequest(t) : t \in BatchTexts}}

\* what translate() can return for a request
TranslateOutcomes(request) ==
  IF ReachesGateway(request)
    THEN {translate(request, gw) : gw \in EvaluateOutcomes(TextToTranslate(request))}
    ELSE {translate(request, Throws)}

\* the request the loop is at
BatchRequest == batchRequests[Len(trs) + 1]

\* results.push(result), and the pause between two requests begins
PushResult(result, tries) ==
  /\ trs' = Append(trs, result)
  /\ batchLog' = Append(batchLog, [tries |-> tries, waits |-> batchWaits])
  /\ pc' = "pause"

\* the loop body up to its first await: translate is called, or with a
\* retryCount of 0 the failure is pushed at once
StartRequest ==
  /\ attempts' = 0 /\ batchTries' = <<>> /\ batchWaits' = <<>>
  /\ IF 0 < retryCount
       THEN pc' = "translate" /\ UNCHANGED <<trs, batchLog>>
       ELSE /\ trs' = Append(trs, Failure(BatchRequest, "All retry attempts failed"))
            /\ batchLog' = Append(batchLog, [tries |-> <<>>, waits |-> <<>>])
            /\ pc' = "pause"

BatchFrame ==
  UNCHANGED <<cfgVars, valVars, callVars, batchRequests, poolVars, exited, browserVars,
              threadVars, fld, k, cur, callLog, loopVars, fileVars, obsVars>>

translateBatch ==
  /\ pc = "translateBatch" /\ command = "translateBatch"
  /\ IF batchRequests = <<>>
       THEN pc' = "returned" /\ UNCHANGED <<attempts, trs, batchTries, batchWaits, batchLog>>
       ELSE StartRequest
  /\ BatchFrame

\* translate() returns: the result is pushed on success or after the last
\* attempt, otherwise the backoff delay begins
TranslateReturns ==
  /\ pc = "translate" /\ command = "translateBatch"
  /\ \E result \in TranslateOutcomes(BatchRequest) :
       LET tries == Append(batchTries, result.success) IN
       /\ batchTries' = tries
       /\ IF result.success
            THEN PushResult(result, tries) /\ UNCHANGED <<attempts, batchWaits>>
            ELSE /\ attempts' = attempts + 1
                 /\ IF attempts + 1 < retryCount
                      THEN /\ batchWaits' = Append(batchWaits, backoffDelay(attempts + 1))
                           /\ pc' = "backoff"
                           /\ UNCHANGED <<trs, batchLog>>
                      ELSE /\ PushResult(Failure(BatchRequest, "All retry attempts failed"),
                                         tries)
                           /\ UNCHANGED batchWaits
  /\ BatchFrame

\* the backoff delay is over: the next attempt
BackoffEnds ==
  /\ pc = "backoff" /\ command = "translateBatch"
  /\ pc' = "translate"
  /\ UNCHANGED <<attempts, trs, batchTries, batchWaits, batchLog>>
  /\ BatchFrame

\* the pause after a request is over: the next request, or the results
PauseEnds ==
  /\ pc = "pause" /\ command = "translateBatch"
  /\ IF Len(trs) = Len(batchRequests)
       THEN pc' = "returned" /\ UNCHANGED <<attempts, trs, batchTries, batchWaits, batchLog>>
       ELSE StartRequest
  /\ BatchFrame

\* translateBatch on any short list of requests
InitBatch ==
  /\ command = "translateBatch"
  /\ words = <<>> /\ checkpoint = <<>>
  /\ batchSize = 1 /\ retryCount \in 0..(MaxRetry + 1)
  /\ gatewayReliable = FALSE /\ closeReliable = FALSE
  /\ NoSignalYet(0)
  /\ InitFields
  /\ pc = "translateBatch"
  /\ batchRequests \in UNION {RequestsOfLength(n) : n \in 0..MaxRequests}
  /\ batchTries = <<>> /\ batchWaits = <<>> /\ batchLog = <<>>
  /\ NoCall /\ NoValidation

BatchStep == translateBatch \/ TranslateReturns \/ BackoffEnds \/ PauseEnds

BatchSpec == InitBatch /\ [][BatchStep]_vars

(* ------------------------------- claims -------------------------------- *)
\* the terms this run has produced: the batch in progress and what was
\* accumulated after the entries taken over from a checkpoint
ProducedHere ==
  LET taken == IF command = "resume" /\ translatedWords # <<>> THEN Len(checkpoint) ELSE 0
  IN {translatedWords[p] : p \in (taken + 1)..Len(translatedWords)}
     \cup {batchResults[p] : p \in DOMAIN batchResults}

\* the input term a produced term was translated from
SourceOf(tw) == CHOOSE w \in {words[p] : p \in DOMAIN words} : w.number = tw.number

SameShape(src, ja) ==
  /\ Present(ja) <=> Present(src)
  /\ Present(src) /\ Present(ja) => Len(ja[1]) = Len(src[1])

\* C1: every term the translator produces has alias_ja, confer_ja, example_ja
\* and note_ja exactly when the source term has alias, confer, example and
\* note, and alias_ja and confer_ja are as long as alias and confer.  (Stated
\* for a configuration that attempts calls at all, and counting an example or
\* note that is the empty string as absent.)
C1_StructuralParallelism ==
  retryCount > 0 =>
    \A tw \in ProducedHere :
      LET word == SourceOf(tw)
      IN /\ SameShape(word.alias, tw.alias_ja)
         /\ SameShape(word.confer, tw.confer_ja)
         /\ Present(tw.example_ja) <=> TruthyString(word.example)
         /\ Present(tw.note_ja) <=> TruthyString(word.note)

\* translateWord has returned and callLog holds the calls it made for cur
WordFinished == fld = "name" /\ callLog # <<>>

\* the translation a finished term holds for the sub-field of a log entry
SubFieldValue(tw, e) ==
  IF e.fld = "name" THEN tw.name_ja
  ELSE IF e.fld = "def" THEN tw.definitions[e.k].text_ja
  ELSE IF e.fld = "example" THEN tw.example_ja[1]
  ELSE IF e.fld = "note" THEN tw.note_ja[1]
  ELSE LET list == IF e.fld = "alias" THEN tw.alias_ja ELSE tw.confer_ja
       IN IF Present(list) /\ e.k <= Len(list[1]) THEN list[1][e.k] ELSE <<"missing">>

\* C2: a sub-field whose translation failed holds the original text, every
\* other sub-field holds its own translation, and alias_ja[i] is the
\* translation of alias[i] (confer_ja likewise).
C2_FallbackPerSubField ==
  (WordFinished /\ retryCount > 0) =>
    \A n \in DOMAIN callLog :
      LET e == callLog[n]
      IN SubFieldValue(cur, e) = IF e.success THEN e.result ELSE e.original

OutputComplete ==
  /\ Present(outputFile)
  /\ Len(outputFile[1]) = Len(words)
  /\ \A p \in DOMAIN words : outputFile[1][p].number = words[p].number

\* C3: processTranslation terminates, whatever the gateway does: a translate
\* command that has loaded its input eventually has written the final output
\* with exactly one entry for every input term.
C3_TranslationCompletes ==
  (command = "translate" /\ pc = "load") ~> (OutputComplete /\ pc \in {"cleanup", "exited"})

\* C3 witness: a translate run over several terms has ended with its final
\* output written although a call failed for every term
C3_Witness ==
  /\ command = "translate" /\ pc = "exited"
  /\ OutputComplete
  /\ Len(words) >= 2
  /\ fallbackIds = {words[p].number : p \in DOMAIN words}

\* C4: the accumulated result list of a translate run is in input order: its
\* entry p has the id of input term p, and so has the batch in progress.
C4_InputOrder ==
  command \in {"translate", "batch"} =>
    /\ Len(translatedWords) <= Len(words)
    /\ \A p \in DOMAIN translatedWords : translatedWords[p].number = words[p].number
    /\ pc = "word" =>
         \A p \in DOMAIN batchResults : batchResults[p].number = words[i + p].number
    /\ pc = "returned" => Len(translatedWords) = Len(words)

\* C4 witness: translateWordsBatch has returned the results of a batch whose
\* last term was the first to be finished
C4_Witness ==
  /\ command = "batch" /\ pc = "returned"
  /\ Len(translatedWords) >= 2
  /\ settleOrder[1] = translatedWords[Len(translatedWords)].number

\* C5: when a signal ends a run that has accumulated results of its own, the
\* results accumulated so far are held by a checkpoint file (a backup or the
\* output file) before the process exits.
C5_InterruptSavesCheckpoint ==
  (exited = "0" /\ pc # "exited" /\ Len(translatedWords) > Len(checkpoint)) =>
    \/ outputFile = <<translatedWords>>
    \/ \E n \in DOMAIN backupFiles : backupFiles[n] = translatedWords

\* C6: a sub-field that falls back was attempted retryCount times before.
C6_RetriedBeforeFallback ==
  \A n \in DOMAIN callLog :
    (~callLog[n].success /\ retryCount > 0) => callLog[n].attempts = retryCount

\* C7: at the end of a run status.failed, and the length of status.errors,
\* is at least the number of terms that contain a fallback value.
C7_FallbacksCounted ==
  (pc \in {"cleanup", "exited"} /\ Present(outputFile) /\ status # NoStatus) =>
    /\ status.failed >= Cardinality(fallbackIds)
    /\ Len(status.errors) >= Cardinality(fallbackIds)

\* C8: an uninterrupted translate run over N terms has left a backup file for
\* every multiple of backupInterval up to N, holding the results up to there.
C8_BackupAtEveryInterval ==
  (command = "translate" /\ Present(outputFile)) =>
    \A m \in 1..Len(words) :
      m % backupInterval = 0 =>
        /\ m \in DOMAIN backupFiles
        /\ backupFiles[m] = SubSeq(outputFile[1], 1, m)

\* C9: the delay between two batches follows the share of the batch's terms
\* that received a fallback value: above 20% three times the base delay,
\* above 10% twice, else the base delay.
C9_DelayFollowsFallbackShare ==
  Present(lastDelay) =>
    lastDelay[1].delay =
      calculateAdaptiveDelay(batchSize, batchSize - lastDelay[1].fallbacks)

\* C10: a resume whose checkpoint already holds every input term makes no
\* gateway call and yields, as its output, exactly the checkpoint.
C10_ResumeOfCompleteCheckpoint ==
  (command = "resume" /\ pc = "exited" /\ exited = "0"
     /\ words # <<>> /\ RemainingWords(checkpoint, words) = <<>>) =>
    /\ gatewayCalls = 0
    /\ outputFile = <<checkpoint>>

CheckpointIds == {checkpoint[p].number : p \in DOMAIN checkpoint}

\* the dataset terms a resume has to translate, in dataset order
NotInCheckpoint == SelectSeq(words, LAMBDA w : w.number \notin CheckpointIds)

\* the output a resume has written at its end
ResumeOutputWritten ==
  command = "resume" /\ pc \in {"cleanup", "exited"} /\ Present(outputFile)

\* C11: the final output of a resume is the checkpoint's entries in their
\* order (stale ids included) followed by the translations of exactly the
\* dataset terms whose id the checkpoint lacks, in dataset order; and no
\* gateway call is made for a term whose id is in the checkpoint.
C11_ResumeOutput ==
  /\ [](ResumeOutputWritten =>
          LET out == outputFile[1]
              n == Len(checkpoint)
          IN /\ Len(out) = n + Len(NotInCheckpoint)
             /\ SubSeq(out, 1, n) = checkpoint
             /\ \A p \in DOMAIN NotInCheckpoint :
                  /\ out[n + p].number = NotInCheckpoint[p].number
                  /\ out[n + p].name = NotInCheckpoint[p].name)
  /\ [][(command = "resume" /\ gatewayCalls' # gatewayCalls)
          => CurrentWord.number \notin CheckpointIds]_vars

\* C11 witness: a resume whose checkpoint holds an id the dataset lacks has
\* translated the missing terms and written its output
C11_Witness ==
  /\ ResumeOutputWritten /\ pc = "exited"
  /\ \E p \in DOMAIN checkpoint :
       checkpoint[p].number \notin {words[q].number : q \in DOMAIN words}
  /\ Len(checkpoint) >= 2
  /\ gatewayCalls > 0

\* C12: once initialization has failed (the command is on the path that ends
\* in process.exit(1)), no term is translated: no translate call reaches the
\* gateway and no checkpoint or output file is written; and when the command
\* ends, its exit code is 1 and the page, the context, the browser and the
\* translator session are released.
InitializationFailed == mainTodo # <<>> /\ mainTodo[Len(mainTodo)] = "exit1"

C12_InitFailureAborts ==
  InitializationFailed =>
    /\ gatewayCalls = 0 /\ translatedWords = <<>>
    /\ outputFile = <<>> /\ backupFiles = <<>>
    /\ pc = "exited" =>
         /\ exited = "1"
         /\ ~page /\ ~context /\ ~browser /\ ~translatorInstance

\* C13: in a run whose close() calls are all fulfilled, whatever the
\* interleaving of its cleanup calls (the catch blocks of initialize, the
\* finally block, the signal handlers), close() is called no more than once
\* on the page, on the context and on the browser.
C13_ClosedExactlyOnce ==
  closeReliable => \A r \in {"page", "context", "browser"} : closeCalls[r] <= 1

\* C14: in a translate or resume run Translator.create returns a translator
\* no more than once (the session made by ChromeTranslator.initialize), however
\* many translate calls the run makes.
C14_OneSession == command # "batch" => sessions <= 1

\* the single call was made with context on a text without surrounding blanks
\* and page.evaluate returned the text it was given
EchoedWithContext ==
  /\ command = "text" /\ pc = "returned"
  /\ callRequest.withContext
  /\ callRequest.text # <<>> /\ Trim(callRequest.text) = callRequest.text
  /\ Present(callEvaluated) /\ callEvaluated[1].did = <<Echo(callEvaluated[1].text)>>

\* C15: a translate call with context on a non-empty text (without blanks at
\* its ends) through a gateway that returns its input succeeds, and its
\* translatedText is the original text.
C15_WrapUnwrapRoundTrip ==
  EchoedWithContext =>
    /\ callResponse[1].success
    /\ callResponse[1].translatedText = callRequest.text

\* the single call was made with context on a text that is not blank, and has
\* passed translate()'s first await or returned
CalledWithContext ==
  /\ command = "text" /\ pc # "call"
  /\ callRequest.withContext /\ Trim(callRequest.text) # <<>>

WrappedLength == TextLength(WrapContext(callRequest.text))

\* C16: of a translate call with context, a wrapped text of up to 5000
\* characters is handed to page.evaluate; a wrapped text of more than 5000
\* characters is not: the call returns a response with success false without
\* calling page.evaluate, and the caller's value is the original text.
C16_LengthLimit ==
  CalledWithContext =>
    /\ WrappedLength <= 5000 =>
         /\ Present(callEvaluated)
         /\ callEvaluated[1].text = WrapContext(callRequest.text)
    /\ WrappedLength > 5000 =>
         /\ callEvaluated = <<>>
         /\ pc = "returned" /\ Present(callResponse)
         /\ ~callResponse[1].success
         /\ callResponse[1].originalText = callRequest.text
         /\ OrOriginal(callResponse[1], callRequest.text) = callRequest.text

\* a wrapped text of exactly 5001 characters was refused
C16_Witness ==
  /\ CalledWithContext /\ WrappedLength = 5001
  /\ pc = "returned" /\ ~callResponse[1].success

\* a wrapped text of exactly 5000 characters was handed to page.evaluate
C16_AtLimit ==
  CalledWithContext /\ WrappedLength = 5000 /\ Present(callEvaluated)

\* C17: in translateWordsBatch no translator.translate call of a term is
\* still pending once the term's result has been pushed to the results, in
\* particular none when the next batch is issued.
C17_NoCallInFlight == command = "batch" => stray = 0

\* the output file is written and every gateway call made for the last term
\* of the run failed
LastTermFailedWholly ==
  /\ command \in {"translate", "resume"} /\ Present(outputFile)
  /\ retryCount > 0 /\ todo # <<>>
  /\ callLog # <<>> /\ \A p \in DOMAIN callLog : ~callLog[p].success

\* C18: when every gateway call made for a term failed, the output file has
\* an entry for the term whose name_ja is the term's name, and validating the
\* output file against the dataset gives a result in which no error names
\* that term.
C18_FailedTermValidates ==
  LastTermFailedWholly =>
    LET out == outputFile[1]
        term == todo[Len(todo)]
        parsed == ParsedAll(out)
    IN /\ out[Len(out)].number = term.number
       /\ out[Len(out)].name_ja = term.name
       /\ ~ValidationThrows(parsed)
       /\ \A p \in DOMAIN validateTranslation(words, parsed).errors :
            validateTranslation(words, parsed).errors[p].number # <<term.number>>

\* C19: the ValidationResult that validateFromFiles returns has isValid true
\* exactly when its errors list is empty, whatever its warnings list holds.
C19_ValidIffNoErrors ==
  (command = "validate" /\ Present(valResult)) =>
    (valResult[1].isValid <=> valResult[1].errors = <<>>)

\* a result with warnings and without errors was returned, and is valid
C19_Witness ==
  /\ command = "validate" /\ Present(valResult)
  /\ valResult[1].warnings # <<>> /\ valResult[1].errors = <<>>
  /\ valResult[1].isValid

\* C20: when both files were read and the translated data holds a term
\* without name_ja or without definitions, the ValidationResult returned
\* carries the statistics of the data and, for each such term, its
\* structural error.
C20_DamagedTermsReported ==
  (command = "validate" /\ pc = "returned" /\ Present(translatedRead)) =>
    /\ valResult[1].statistics.totalWords = Len(words)
    /\ valResult[1].statistics.translatedWords = Len(translatedRead[1])
    /\ \A p \in DOMAIN translatedRead[1] :
         LET t == translatedRead[1][p]
         IN /\ ~Present(t.name_ja) =>
                 InSeq(Finding("missing name_ja field", t.number, 0), valResult[1].errors)
            /\ ~Present(t.definitions) =>
                 InSeq(Finding("missing or empty definitions", t.number, 0),
                       valResult[1].errors)

\* C21: no error of a returned ValidationResult comes from the completeness
\* pass: its only error message, "Missing translation for word", is in no
\* errors list.
C21_CompletenessOnlyWarns ==
  (command = "validate" /\ Present(valResult)) =>
    \A p \in DOMAIN valResult[1].errors :
      valResult[1].errors[p].kind # "Missing translation for word"

\* validateFromFiles has returned the result of validateTranslation
ValidationReturned ==
  /\ command = "validate" /\ pc = "returned"
  /\ Present(validated) /\ ~validated[1].throws

OriginalIds == {<<words[p].number>> : p \in DOMAIN words}

TranslatedIds == {translatedRead[1][p].number : p \in DOMAIN translatedRead[1]}

IdErrors == {"Missing translated term", "Missing translation for word"}

\* C22: in the result validateTranslation returns, every original id absent
\* from the translated data has a "Missing translated term" error; every id
\* of the translated data absent from the original data has an "Extra
\* translated term found" warning and is named by no error; and when no
\* original id is absent, no error is about a missing id.
C22_MissingAndExtraIds ==
  ValidationReturned =>
    LET r == valResult[1]
    IN /\ \A n \in OriginalIds \ TranslatedIds :
            InSeq(Finding("Missing translated term", n, 0), r.errors)
       /\ \A n \in (TranslatedIds \ OriginalIds) \ {<<>>} :
            /\ InSeq(Finding("Extra translated term found", n, 0), r.warnings)
            /\ \A p \in DOMAIN r.errors : r.errors[p].number # n
       /\ OriginalIds \subseteq TranslatedIds =>
            \A p \in DOMAIN r.errors : r.errors[p].kind \notin IdErrors

\* a result for translated data that lacks an original id and holds an id the
\* original data lacks
C22_Witness ==
  /\ ValidationReturned
  /\ OriginalIds \ TranslatedIds # {}
  /\ (TranslatedIds \ OriginalIds) \ {<<>>} # {}

\* the original terms whose id the translated data lacks
MissingOriginals == {p \in DOMAIN words : <<words[p].number>> \notin TranslatedIds}

\* the original terms whose entry in the translated data (the last one with
\* the id) has a name_ja that is empty or made of blanks only
EmptyOriginals ==
  {p \in DOMAIN words :
     \E q \in DOMAIN translatedRead[1] :
       /\ translatedRead[1][q].number = <<words[p].number>>
       /\ \A q2 \in DOMAIN translatedRead[1] :
            translatedRead[1][q2].number = <<words[p].number>> => q2 <= q
       /\ \A c \in DOMAIN translatedRead[1][q].name_ja[1] :
            translatedRead[1][q].name_ja[1][c] = " "}

\* C23: the statistics of the result validateTranslation returns: totalWords
\* is the number of original terms, translatedWords the number of translated
\* terms, missingTranslations the number of original ids absent from the
\* translated data, emptyTranslations the number of original ids whose
\* translated name_ja is empty or whitespace-only; their sum is at most
\* totalWords.
C23_Statistics ==
  ValidationReturned =>
    LET st == valResult[1].statistics
    IN /\ st.totalWords = Len(words)
       /\ st.translatedWords = Len(translatedRead[1])
       /\ st.missingTranslations = Cardinality(MissingOriginals)
       /\ st.emptyTranslations = Cardinality(EmptyOriginals)
       /\ st.missingTranslations + st.emptyTranslations <= st.totalWords

\* a result over data with a missing term and a term whose name_ja is blank
C23_Witness ==
  /\ ValidationReturned
  /\ MissingOriginals # {}
  /\ \E p \in EmptyOriginals :
       \E q \in DOMAIN translatedRead[1] :
         /\ translatedRead[1][q].number = <<words[p].number>>
         /\ translatedRead[1][q].name_ja = << <<" ">> >>

TriesOf(p) == batchLog[p].tries

\* C24: translateBatch returns one response per request, in request order;
\* a request is tried at most retryCount times and not again after its first
\* success; the wait before attempt m+1 is retryDelay * 2^(m-1) and none
\* follows the last attempt; when no attempt succeeds (or retryCount is 0)
\* the response is a failure whose originalText is the request text.
C24_TranslateBatch ==
  command = "translateBatch" =>
    /\ (pc = "returned" => Len(trs) = Len(batchRequests))
    /\ Len(batchLog) = Len(trs)
    /\ \A p \in DOMAIN trs :
         LET n == Len(TriesOf(p))
             waits == batchLog[p].waits IN
         /\ trs[p].originalText = batchRequests[p].text
         /\ n <= retryCount
         /\ \A m \in 1..n : TriesOf(p)[m] => m = n
         /\ trs[p].success <=> (n > 0 /\ TriesOf(p)[n])
         /\ Len(waits) = (IF n = 0 THEN 0 ELSE n - 1)
         /\ \A m \in DOMAIN waits : waits[m] = retryDelay * 2^(m - 1)
         /\ ~trs[p].success => n = retryCount /\ trs[p].translatedText = <<>>

C24_Witness ==
  /\ command = "translateBatch" /\ pc = "returned"
  /\ retryCount = 3 /\ Len(trs) = 2
  /\ ~trs[1].success /\ batchLog[1].waits = <<retryDelay, 2 * retryDelay>>
  /\ trs[2].success /\ Len(TriesOf(2)) = 2

NonBlank(text) == \E p \in DOMAIN text : text[p] # " "

\* C25: every outcome of translate is a response whose originalText is the
\* request text; success is true only with a translatedText that is not blank;
\* a blank input, a gateway error, an empty gateway result and a result that
\* is empty once the context prefix is removed all give success false with an
\* empty translatedText.
C25_TranslateOutcome ==
  (command = "text" /\ pc = "returned") =>
    /\ Present(callResponse)
    /\ LET r == callResponse[1]
           did == IF Present(callEvaluated) THEN callEvaluated[1].did ELSE <<>> IN
       /\ r.originalText = callRequest.text
       /\ r.success => NonBlank(r.translatedText)
       /\ ~r.success => r.translatedText = <<>>
       /\ ~NonBlank(callRequest.text) => ~r.success
       /\ \A gw \in {did[p] : p \in DOMAIN did} :
            \/ gw.throws
            \/ gw.result = <<>>
            \/ /\ callRequest.withContext
               /\ \E v \in DOMAIN contextPrefixes :
                    /\ StartsWith(gw.result, contextPrefixes[v])
                    /\ ~NonBlank(Substring(gw.result, Len(contextPrefixes[v])))
            => ~r.success

C25_Witness ==
  /\ command = "text" /\ pc = "returned"
  /\ callRequest.withContext /\ NonBlank(callRequest.text)
  /\ Present(callEvaluated)
  /\ callEvaluated[1].did = <<[throws |-> FALSE, result |-> contextPrefixes[1]]>>
  /\ ~callResponse[1].success

Ids(ts) == [p \in DOMAIN ts |-> ts[p].number]

\* C26: a backup file written by a run over a dataset holds the ids of one of
\* the dataset's checkpoints, and a resume from such a checkpoint with the
\* same dataset ends with a final output that holds the ids of the dataset in
\* dataset order, each once (the ids of the output of an uninterrupted run).
C26_ResumeEqualsRun ==
  /\ command = "translate" =>
       \A n \in DOMAIN backupFiles :
         \E c \in WrittenCheckpoints(words) : Ids(c) = Ids(backupFiles[n])
  /\ (command \in {"translate", "resume"} /\ pc = "exited" /\ exited = "0"
        /\ sig = <<>> /\ words # <<>>
        /\ (command = "resume" => checkpoint \in WrittenCheckpoints(words))) =>
       /\ Present(outputFile)
       /\ Ids(outputFile[1]) = Ids(words)

\* C27: in every state of a run or of a resume the status satisfies
\* 0 <= failed <= completed <= total.
C27_StatusBounds ==
  command \in {"translate", "resume"} =>
    /\ 0 <= status.failed
    /\ status.failed <= status.completed
    /\ status.completed <= status.total

\* a signal handler has begun to release the browser and the session
ShutdownStarted == \E s \in DOMAIN sig : sig[s] # "idle"

\* C28: once a signal handler has begun its cleanup, no step of the command
\* makes a gateway call or writes a checkpoint or output file.
C28_NoWorkAfterShutdown ==
  [][ShutdownStarted =>
       /\ gatewayCalls' = gatewayCalls
       /\ outputFile' = outputFile
       /\ backupFiles' = backupFiles]_vars

\* a cleanup() call returns in this step: one of the command (the catch block
\* of initialize, the finally block) or the one of a signal handler
CleanupReturns ==
  \/ /\ mainTodo # <<>> /\ Head(mainTodo) \in {"browser", "processor"}
     /\ pc = "cleanup" /\ mainTodo' = Tail(mainTodo)
  \/ \E s \in DOMAIN sig : sig[s] # "done" /\ sig'[s] = "done"

\* C29: when cleanup() returns, also after a close() that failed and in the
\* catch block of a failed initialize(), the page, the context and the browser
\* are closed (their fields are null) and isInitialized() is false.
C29_CleanupClosesAll ==
  [][CleanupReturns => (~page' /\ ~context' /\ ~browser')]_vars

\* C30: every term the translator produces carries the source fields of its
\* term unchanged: number, name, the text and reference of each definition in
\* order, and alias, confer, example and note as the source has them (an
\* example or note that is the empty string included).
C30_SourceFieldsKept ==
  command \in {"translate", "resume"} =>
    \A tw \in ProducedHere :
      LET word == SourceOf(tw)
      IN /\ tw.number = word.number /\ tw.name = word.name
         /\ Len(tw.definitions) = Len(word.definitions)
         /\ \A p \in DOMAIN word.definitions :
              /\ tw.definitions[p].text = word.definitions[p].text
              /\ tw.definitions[p].reference = word.definitions[p].reference
         /\ tw.alias = word.alias /\ tw.confer = word.confer
         /\ tw.example = word.example /\ tw.note = word.note


==============================================================================
